---- MODULE Spec2Model ----
(***************************************************************************)
(* The hook execution subsystem of src/hooks/src/lib.rs: the HookManager,  *)
(* its two registries, the bookmark bindings, the bypass predicate, the    *)
(* verdict cache and the two evaluation entry points, as a state machine.  *)
(*                                                                         *)
(* Strings are sequences of code points and byte strings are sequences of  *)
(* byte values, so that UTF-8 decoding and substring search are computed.  *)
(* Futures are futures 0.1: nothing runs until polled, and join_all fails  *)
(* as soon as a poll finds one failed element.                             *)
(***************************************************************************)
EXTENDS Integers, Sequences, FiniteSets, TLC

(***************************************************************************)
(* Bounds of the model.                                                    *)
(***************************************************************************)
\* Longest commit message (in bytes) a store of the bypass specification holds.
MaxMsgLen == 2
\* Longest push-variable value (in bytes).
MaxPushvarLen == 2
\* Evaluation calls per behaviour.
MaxCalls == 2
\* Registrations and bindings per behaviour.
MaxConfigOps == 3
\* Connections the command receiver accepts per behaviour.
MaxConnections == 3
\* HookManagerParams.entrylimit handed to the cache.
entrylimit == 2
\* HookManagerParams.weightlimit handed to the cache: room for a rejection
\* and an acceptance, not for two rejections.
weightlimit == 30
\* mem::size_of::<Self>(), in the unit of the weights (one byte of a string).
size_of_HookExecution == 1
size_of_HookRejectionInfo == 1

(***************************************************************************)
(* Value domains.                                                          *)
(***************************************************************************)
HookNames == {"h1", "h2"}
Bookmarks == {"master", "other"}
CsIds == {"c1", "c2"}
Paths == {"a", "b"}
Evals == {1, 2}
PushvarNames == {"OVERRIDE", "OTHER"}

\* ChangedFileType
ChangedFileTypes == {"Added", "Deleted", "Modified"}

\* HookExecution
Accepted == [tag |-> "Accepted", description |-> "", long_description |-> ""]
Rejected(d, l) == [tag |-> "Rejected", description |-> d, long_description |-> l]
NoExecution == [tag |-> "None", description |-> "", long_description |-> ""]

\* HookBypass, as Option<HookBypass> of HookConfig.bypass
NoBypass == [type |-> "None", name |-> "", value |-> <<>>]
CommitMessage(s) == [type |-> "CommitMessage", name |-> "", value |-> s]
Pushvar(n, v) == [type |-> "Pushvar", name |-> n, value |-> v]

\* HookConfig
HookConfig(b) == [bypass |-> b]

\* Option<HashMap<String, Bytes>>
NoPushvars == [some |-> FALSE, vars |-> <<>>]
SomePushvars(m) == [some |-> TRUE, vars |-> m]

\* Result<_, Error>
Ok(v) == [tag |-> "Ok", verdicts |-> v, kind |-> "", what |-> ""]
Err(k, w) == [tag |-> "Err", verdicts |-> <<>>, kind |-> k, what |-> w]
NoResult == [tag |-> "None", verdicts |-> <<>>, kind |-> "", what |-> ""]

(***************************************************************************)
(* Pure functions.                                                         *)
(***************************************************************************)
\* str::from_utf8 / String::from_utf8 on the one- and two-byte forms; every
\* other lead byte, a missing or bad continuation byte and an overlong form
\* (lead 0xC0, 0xC1) is an error.
RECURSIVE from_utf8(_)
from_utf8(bytes) ==
    IF bytes = <<>> THEN [ok |-> TRUE, str |-> <<>>]
    ELSE LET b == Head(bytes) IN
         IF b < 128
         THEN LET r == from_utf8(Tail(bytes)) IN
              [ok |-> r.ok, str |-> IF r.ok THEN <<b>> \o r.str ELSE <<>>]
         ELSE IF /\ b >= 194 /\ b <= 223 /\ Len(bytes) >= 2
                 /\ bytes[2] >= 128 /\ bytes[2] <= 191
         THEN LET r == from_utf8(SubSeq(bytes, 3, Len(bytes))) IN
              [ok |-> r.ok,
               str |-> IF r.ok THEN <<(b - 192) * 64 + (bytes[2] - 128)>> \o r.str
                       ELSE <<>>]
         ELSE [ok |-> FALSE, str |-> <<>>]

starts_with(s, p) == Len(p) <= Len(s) /\ SubSeq(s, 1, Len(p)) = p

\* A search that only looks at the start of the text.
str_contains_prefix_only(s, p) == starts_with(s, p)

\* str::contains: the pattern occurs at some offset of the text.
RECURSIVE str_contains(_, _)
str_contains(s, p) ==
    IF starts_with(s, p) THEN TRUE
    ELSE IF s = <<>> THEN FALSE
    ELSE str_contains(Tail(s), p)

\* A push-variable test that looks only at the presence of the key.
is_hook_bypassed_key_only(bypass, cs_msg, maybe_pushvars) ==
    IF bypass.type = "CommitMessage" THEN str_contains(cs_msg, bypass.value)
    ELSE maybe_pushvars.some /\ bypass.name \in DOMAIN maybe_pushvars.vars

\* HookManager::is_hook_bypassed
is_hook_bypassed(bypass, cs_msg, maybe_pushvars) ==
    IF bypass.type = "CommitMessage" THEN str_contains(cs_msg, bypass.value)
    ELSE IF maybe_pushvars.some
         THEN IF bypass.name \in DOMAIN maybe_pushvars.vars
              THEN LET pushvar_val == from_utf8(maybe_pushvars.vars[bypass.name]) IN
                   IF pushvar_val.ok THEN pushvar_val.str = bypass.value ELSE FALSE
              ELSE FALSE
         ELSE FALSE

\* A filter that keeps every hook.
filter_bypassed_hooks_keep_all(hooks, commit_msg, maybe_pushvars) == hooks

\* HookManager::filter_bypassed_hooks: hooks is a sequence of
\* [name, hook, config]; the bypassed ones are dropped, the order kept.
filter_bypassed_hooks(hooks, commit_msg, maybe_pushvars) ==
    SelectSeq(hooks, LAMBDA h :
        IF h.config.bypass.type # "None"
        THEN ~is_hook_bypassed(h.config.bypass, commit_msg, maybe_pushvars)
        ELSE TRUE)

(***************************************************************************)
(* State.                                                                  *)
(***************************************************************************)
VARIABLES
    changeset_hooks,  \* HookManager.changeset_hooks: name -> [hook, config]
    file_hooks,       \* HookManager.file_hooks (behind the mutex): name -> [hook, config]
    bookmark_hooks,   \* HookManager.bookmark_hooks: bookmark -> sequence of names
    cache,            \* HookManager.cache: key -> slot (Waiting or Complete)
    lru,              \* the cache's completed keys, least recently used first
    store,            \* the changeset store: changeset id -> changeset
    evals,            \* the evaluation calls: their futures and results
    fills,            \* key -> number of times the filler was invoked for it
    ncalls,           \* evaluation calls made so far
    nconf,            \* registrations and bindings made so far
    file_hooks_lock,  \* the mutex of file_hooks: 0, or the evaluation whose thread holds it
    hook_names,           \* what changeset_hook_names and file_hook_names returned last
    passed,           \* the arguments of the latest register call of each name and
                      \* of the latest set_hooks_for_bookmark call of each bookmark
    content_store,    \* InMemoryFileContentStore.map: <<changeset id, path>> -> content
    helper,           \* the last call of a HookFile helper and of
                      \* HookChangeset::file_content, with what its future resolved to
    receiver,         \* the TcpReceiverService of receiver.rs and its serve task
    hook_manager      \* the construction of the HookManager: the parameters it was
                      \* given, the calls it made, and its reviewers_acl_checker

vars == <<changeset_hooks, file_hooks, bookmark_hooks, cache, lru, store, evals,
          fills, ncalls, nconf, file_hooks_lock, hook_names, passed,
          content_store, helper, receiver, hook_manager>>

\* The rule bodies of the model: a body accepts, rejects or fails with an error.
Bodies == {"accept", "reject", "fail"}

\* Hook::run: the outcome of a body on a context, once its future completes.
hook_run(hook, hook_context) ==
    CASE hook = "accept" -> [ok |-> TRUE, exec |-> Accepted]
      [] hook = "reject" -> [ok |-> TRUE,
                              exec |-> Rejected("rejected", hook_context.hook_name)]
      [] OTHER -> [ok |-> FALSE, exec |-> NoExecution]

\* HookContext::new
HookContext(hook_name, config, data) ==
    [hook_name |-> hook_name, repo_name |-> "repo", config |-> config, data |-> data]

\* HookFile::new
HookFile(path, changeset_id, ty) == [path |-> path, changeset_id |-> changeset_id, ty |-> ty]

\* An execution id stamped with the two fields the wrong way round.
ChangesetHookExecutionID_swapped(cs_id, hook_name) ==
    [cs_id |-> hook_name, hook_name |-> cs_id]

\* ChangesetHookExecutionID and FileHookExecutionID
ChangesetHookExecutionID(cs_id, hook_name) == [cs_id |-> cs_id, hook_name |-> hook_name]
FileHookExecutionID(cs_id, hook_name, file) ==
    [cs_id |-> cs_id, hook_name |-> hook_name, file |-> file]

\* PartialEq and Hash of FileHookExecutionID: the file counts by its path and
\* changeset id, not by its change type.
CacheKey(id) == <<id.cs_id, id.hook_name, id.file.path, id.file.changeset_id>>
Keys == {<<c, n, p, c>> : c \in CsIds, n \in HookNames, p \in Paths}

NoStoreCalls == [get_changeset_by_changesetid |-> 0, get_changed_files |-> 0]

IdleEval ==
    [pc |-> "idle", kind |-> "", cs_id |-> "", bookmark |-> "",
     pushvars |-> NoPushvars, hooks |-> <<>>, tasks |-> <<>>, result |-> NoResult,
     store_calls |-> NoStoreCalls,
     bound |-> [some |-> FALSE, hooks |-> <<>>], registered |-> <<>>]

\* A dispatched rule invocation of an evaluation: a changeset hook's future, or
\* a cache get (id is the execution id the verdict is stamped with).
Task(id, hook, config, st, exec, fill_no) ==
    [id |-> id, hook |-> hook, config |-> config, st |-> st, exec |-> exec,
     fill_no |-> fill_no]

Min(S) == CHOOSE x \in S : \A y \in S : x <= y

(***************************************************************************)
(* Registration (lines 156-178).                                           *)
(***************************************************************************)
\* The log of the latest arguments per key, after a call for `key`.
Latest(log, key, args) == (key :> args) @@ log

\* An insert that keeps the entry the key already has (or_insert).
MapInsert_keep_prior(m, k, v) ==
    [x \in DOMAIN m \cup {k} |-> IF x = k /\ k \notin DOMAIN m THEN v ELSE m[x]]

\* HashMap::insert: the entry of the key is replaced.
MapInsert(m, k, v) == [x \in DOMAIN m \cup {k} |-> IF x = k THEN v ELSE m[x]]
MapRemove(m, k) == [x \in DOMAIN m \ {k} |-> m[x]]

register_changeset_hook(hook_name, hook, config) ==
    /\ nconf < MaxConfigOps
    /\ changeset_hooks' = MapInsert(changeset_hooks, hook_name,
                                    [hook |-> hook, config |-> config])
    /\ nconf' = nconf + 1
    /\ passed' = [passed EXCEPT !.changeset = Latest(@, hook_name, <<hook, config>>)]
    /\ UNCHANGED <<file_hooks, bookmark_hooks, cache, lru, store, evals, fills, ncalls,
                   file_hooks_lock, hook_names,
                   content_store, helper, receiver, hook_manager>>

\* A registration that drops the entries of the other names.
register_file_hook_alone(hook_name, hook, config) ==
    /\ nconf < MaxConfigOps
    /\ file_hooks_lock = 0
    /\ file_hooks' = MapInsert(<<>>, hook_name, [hook |-> hook, config |-> config])
    /\ nconf' = nconf + 1
    /\ passed' = [passed EXCEPT !.file = Latest(@, hook_name, <<hook, config>>)]
    /\ UNCHANGED <<changeset_hooks, bookmark_hooks, cache, lru, store, evals, fills,
                   ncalls,
                   file_hooks_lock, hook_names,
                   content_store, helper, receiver, hook_manager>>

\* A registration that drops the verdicts the cache holds for the name.
register_file_hook_invalidate(hook_name, hook, config) ==
    /\ nconf < MaxConfigOps
    /\ file_hooks_lock = 0
    /\ file_hooks' = MapInsert(file_hooks, hook_name, [hook |-> hook, config |-> config])
    /\ nconf' = nconf + 1
    /\ passed' = [passed EXCEPT !.file = Latest(@, hook_name, <<hook, config>>)]
    /\ cache' = [k \in {x \in DOMAIN cache : x[2] # hook_name \/ cache[x].state # "Complete"} |->
                    cache[k]]
    /\ lru' = SelectSeq(lru, LAMBDA k : k[2] # hook_name)
    /\ UNCHANGED <<changeset_hooks, bookmark_hooks, store, evals, fills,
                   ncalls,
                   file_hooks_lock, hook_names,
                   content_store, helper, receiver, hook_manager>>

register_file_hook(hook_name, hook, config) ==
    /\ nconf < MaxConfigOps
    /\ file_hooks_lock = 0
    /\ file_hooks' = MapInsert(file_hooks, hook_name, [hook |-> hook, config |-> config])
    /\ nconf' = nconf + 1
    /\ passed' = [passed EXCEPT !.file = Latest(@, hook_name, <<hook, config>>)]
    /\ UNCHANGED <<changeset_hooks, bookmark_hooks, cache, lru, store, evals, fills,
                   ncalls,
                   file_hooks_lock, hook_names,
                   content_store, helper, receiver, hook_manager>>

\* A binding that adds the names to those the bookmark already has.
set_hooks_for_bookmark_extend(bookmark, hooks) ==
    /\ nconf < MaxConfigOps
    /\ bookmark_hooks' = MapInsert(bookmark_hooks, bookmark,
                                IF bookmark \in DOMAIN bookmark_hooks
                                THEN bookmark_hooks[bookmark] \o hooks ELSE hooks)
    /\ nconf' = nconf + 1
    /\ passed' = [passed EXCEPT !.bookmark = Latest(@, bookmark, hooks)]
    /\ UNCHANGED <<changeset_hooks, file_hooks, cache, lru, store, evals, fills, ncalls,
                   file_hooks_lock, hook_names,
                   content_store, helper, receiver, hook_manager>>

set_hooks_for_bookmark(bookmark, hooks) ==
    /\ nconf < MaxConfigOps
    /\ bookmark_hooks' = MapInsert(bookmark_hooks, bookmark, hooks)
    /\ nconf' = nconf + 1
    /\ passed' = [passed EXCEPT !.bookmark = Latest(@, bookmark, hooks)]
    /\ UNCHANGED <<changeset_hooks, file_hooks, cache, lru, store, evals, fills, ncalls,
                   file_hooks_lock, hook_names,
                   content_store, helper, receiver, hook_manager>>

(***************************************************************************)
(* The changeset snapshot (lines 443-475).                                 *)
(***************************************************************************)
\* A snapshot that fetches the changeset again for the list of its files.
get_hook_changeset_calls_refetch(calls) ==
    [get_changeset_by_changesetid |-> calls.get_changeset_by_changesetid + 2,
     get_changed_files |-> calls.get_changed_files + 1]

\* The store calls get_hook_changeset makes when it is called.
get_hook_changeset_calls(calls) ==
    [get_changeset_by_changesetid |-> calls.get_changeset_by_changesetid + 1,
     get_changed_files |-> calls.get_changed_files + 1]

\* A snapshot that decodes the author strictly and keeps whatever bytes the
\* commit message has.
get_hook_changeset_author_only(changeset_id) ==
    IF changeset_id \notin DOMAIN store
    THEN [ok |-> FALSE, err |-> Err("NoSuchChangeset", changeset_id)]
    ELSE LET changeset == store[changeset_id]
             author == from_utf8(changeset.user)
         IN  IF ~author.ok THEN [ok |-> FALSE, err |-> Err("Utf8Error", "author")]
             ELSE [ok |-> TRUE,
                   author |-> author.str,
                   files |-> [i \in 1..Len(changeset.files) |->
                                 HookFile(changeset.files[i].path, changeset_id,
                                          changeset.files[i].ty)],
                   comments |-> changeset.comments,
                   changeset_id |-> changeset_id]

\* A snapshot that takes a changeset the store does not hold for an empty one.
get_hook_changeset_or_empty(changeset_id) ==
    IF changeset_id \notin DOMAIN store
    THEN [ok |-> TRUE, author |-> <<>>, files |-> <<>>, comments |-> <<>>,
          changeset_id |-> changeset_id]
    ELSE LET changeset == store[changeset_id]
             author == from_utf8(changeset.user)
             comments == from_utf8(changeset.comments)
         IN  IF ~author.ok THEN [ok |-> FALSE, err |-> Err("Utf8Error", "author")]
             ELSE IF ~comments.ok THEN [ok |-> FALSE, err |-> Err("Utf8Error", "comments")]
             ELSE [ok |-> TRUE,
                   author |-> author.str,
                   files |-> [i \in 1..Len(changeset.files) |->
                                 HookFile(changeset.files[i].path, changeset_id,
                                          changeset.files[i].ty)],
                   comments |-> comments.str,
                   changeset_id |-> changeset_id]

\* What the future of get_hook_changeset resolves to.
get_hook_changeset(changeset_id) ==
    IF changeset_id \notin DOMAIN store
    THEN [ok |-> FALSE, err |-> Err("NoSuchChangeset", changeset_id)]
    ELSE LET changeset == store[changeset_id]
             author == from_utf8(changeset.user)
             comments == from_utf8(changeset.comments)
         IN  IF ~author.ok THEN [ok |-> FALSE, err |-> Err("Utf8Error", "author")]
             ELSE IF ~comments.ok THEN [ok |-> FALSE, err |-> Err("Utf8Error", "comments")]
             ELSE [ok |-> TRUE,
                   author |-> author.str,
                   files |-> [i \in 1..Len(changeset.files) |->
                                 HookFile(changeset.files[i].path, changeset_id,
                                          changeset.files[i].ty)],
                   comments |-> comments.str,
                   changeset_id |-> changeset_id]

(***************************************************************************)
(* join_all (futures 0.1), used at lines 287, 399 and 425: a poll finds     *)
(* the first failed element in order and fails with its error at once,      *)
(* dropping the other elements; it succeeds once every element is done.     *)
(***************************************************************************)
\* A join that reports an error only once no element is pending any more.
join_all_wait_for_all(tasks) ==
    LET failed == {i \in DOMAIN tasks : tasks[i].st = "Failed"} IN
    IF \E i \in DOMAIN tasks : tasks[i].st = "Pending"
    THEN [ready |-> FALSE, result |-> NoResult]
    ELSE IF failed # {}
    THEN [ready |-> TRUE,
          result |-> Err("while executing hook", tasks[Min(failed)].id.hook_name)]
    ELSE [ready |-> TRUE,
          result |-> Ok([i \in DOMAIN tasks |-> [id |-> tasks[i].id, exec |-> tasks[i].exec]])]

\* A join that leaves the failed elements out and returns the rest.
join_all_collect_ok(tasks) ==
    LET done == SelectSeq(tasks, LAMBDA t : t.st = "Done") IN
    IF \E i \in DOMAIN tasks : tasks[i].st = "Pending"
    THEN [ready |-> FALSE, result |-> NoResult]
    ELSE [ready |-> TRUE,
          result |-> Ok([i \in DOMAIN done |-> [id |-> done[i].id, exec |-> done[i].exec]])]

join_all(tasks) ==
    LET failed == {i \in DOMAIN tasks : tasks[i].st = "Failed"} IN
    IF failed # {}
    THEN [ready |-> TRUE,
          result |-> Err("while executing hook", tasks[Min(failed)].id.hook_name)]
    ELSE IF \A i \in DOMAIN tasks : tasks[i].st = "Done"
    THEN [ready |-> TRUE,
          result |-> Ok([i \in DOMAIN tasks |-> [id |-> tasks[i].id, exec |-> tasks[i].exec]])]
    ELSE [ready |-> FALSE, result |-> NoResult]

\* The poll of an evaluation's join_all that completes the evaluation: the
\* elements still pending are dropped with the join.
join_all_poll(e) ==
    /\ evals[e].pc = "join_all"
    /\ LET j == join_all(evals[e].tasks) IN
       /\ j.ready
       /\ evals' = [evals EXCEPT
             ![e].pc = "done",
             ![e].result = j.result,
             ![e].tasks = [i \in DOMAIN @ |->
                              IF @[i].st = "Pending" THEN [@[i] EXCEPT !.st = "Dropped"]
                              ELSE @[i]]]
    /\ UNCHANGED <<changeset_hooks, file_hooks, bookmark_hooks, cache, lru, store,
                   fills, ncalls, nconf,
                   file_hooks_lock, hook_names, passed,
                   content_store, helper, receiver, hook_manager>>

(***************************************************************************)
(* Changeset hooks (lines 198-304).                                        *)
(***************************************************************************)
\* A lookup that treats a bookmark with no entry as one bound to no hook.
bookmark_hooks_get_or_empty(bookmark) ==
    [some |-> TRUE,
     hooks |-> IF bookmark \in DOMAIN bookmark_hooks THEN bookmark_hooks[bookmark]
               ELSE <<>>]

\* self.bookmark_hooks.get(bookmark)
bookmark_hooks_get(bookmark) ==
    IF bookmark \in DOMAIN bookmark_hooks
    THEN [some |-> TRUE, hooks |-> bookmark_hooks[bookmark]]
    ELSE [some |-> FALSE, hooks |-> <<>>]

\* An entry point that hands every bound name on.
changeset_hooks_filter_none(hooks) == hooks

\* The filter of run_changeset_hooks_for_bookmark (lines 207-211).
changeset_hooks_filter(hooks) ==
    SelectSeq(hooks, LAMBDA name : name \in DOMAIN changeset_hooks)

\* A lookup that collects the resolved hooks by name, one entry per name.
changeset_hooks_lookup_unique(hooks) ==
    LET missing == {i \in DOMAIN hooks : hooks[i] \notin DOMAIN changeset_hooks}
        first == SelectSeq([i \in DOMAIN hooks |-> i],
                           LAMBDA i : \A j \in 1..(i - 1) : hooks[j] # hooks[i])
    IN
    IF missing # {}
    THEN [ok |-> FALSE, name |-> hooks[Min(missing)], hooks |-> <<>>]
    ELSE [ok |-> TRUE, name |-> "",
          hooks |-> [i \in DOMAIN first |->
                        [name |-> hooks[first[i]],
                         hook |-> changeset_hooks[hooks[first[i]]].hook,
                         config |-> changeset_hooks[hooks[first[i]]].config]]]

\* The lookup of run_changeset_hooks_for_changeset_id (lines 225-234): the
\* first name with no entry is a NoSuchHook error.
changeset_hooks_lookup(hooks) ==
    LET missing == {i \in DOMAIN hooks : hooks[i] \notin DOMAIN changeset_hooks} IN
    IF missing # {}
    THEN [ok |-> FALSE, name |-> hooks[Min(missing)], hooks |-> <<>>]
    ELSE [ok |-> TRUE, name |-> "",
          hooks |-> [i \in DOMAIN hooks |->
                        [name |-> hooks[i],
                         hook |-> changeset_hooks[hooks[i]].hook,
                         config |-> changeset_hooks[hooks[i]].config]]]

\* The call of the entry point: the synchronous part, up to the store calls.
run_changeset_hooks_for_bookmark(e, changeset_id, bookmark, maybe_pushvars) ==
    /\ ncalls < MaxCalls
    /\ evals[e].pc \in {"idle", "done"}
    /\ LET base == [IdleEval EXCEPT
                       !.kind = "changeset", !.cs_id = changeset_id,
                       !.bookmark = bookmark, !.pushvars = maybe_pushvars,
                       !.bound = IF bookmark \in DOMAIN bookmark_hooks
                                 THEN [some |-> TRUE, hooks |-> bookmark_hooks[bookmark]]
                                 ELSE [some |-> FALSE, hooks |-> <<>>],
                       !.registered = changeset_hooks]
           got == bookmark_hooks_get(bookmark)
           hooks == changeset_hooks_lookup(changeset_hooks_filter(got.hooks))
       IN  evals' = [evals EXCEPT ![e] =
               IF ~got.some THEN [base EXCEPT !.pc = "done", !.result = Ok(<<>>)]
               ELSE IF ~hooks.ok
               THEN [base EXCEPT !.pc = "done", !.result = Err("NoSuchHook", hooks.name)]
               ELSE [base EXCEPT !.pc = "called", !.hooks = hooks.hooks,
                                 !.store_calls = get_hook_changeset_calls(@)]]
    /\ ncalls' = ncalls + 1
    /\ UNCHANGED <<changeset_hooks, file_hooks, bookmark_hooks, cache, lru, store,
                   fills, nconf,
                   file_hooks_lock, hook_names, passed,
                   content_store, helper, receiver, hook_manager>>

\* The snapshot resolves: bypass filter, then every surviving hook is run
\* (run_changeset_hooks_for_changeset, lines 236-288).
run_changeset_hooks_for_changeset(e) ==
    /\ evals[e].pc = "called"
    /\ evals[e].kind = "changeset"
    /\ LET ev == evals[e]
           hcs == get_hook_changeset(ev.cs_id)
           hooks == filter_bypassed_hooks(ev.hooks, hcs.comments, ev.pushvars)
       IN  evals' = [evals EXCEPT ![e] =
               IF ~hcs.ok THEN [ev EXCEPT !.pc = "done", !.result = hcs.err]
               ELSE [ev EXCEPT
                        !.pc = "join_all",
                        !.tasks = [i \in DOMAIN hooks |->
                            Task(ChangesetHookExecutionID(ev.cs_id, hooks[i].name),
                                 hooks[i].hook, hooks[i].config, "Pending",
                                 NoExecution, 0)]]]
    /\ UNCHANGED <<changeset_hooks, file_hooks, bookmark_hooks, cache, lru, store,
                   fills, ncalls, nconf,
                   file_hooks_lock, hook_names, passed,
                   content_store, helper, receiver, hook_manager>>

\* The future of one changeset hook becomes ready (run_changeset_hook).
run_changeset_hook(e, i) ==
    /\ evals[e].pc = "join_all"
    /\ evals[e].kind = "changeset"
    /\ i \in DOMAIN evals[e].tasks
    /\ evals[e].tasks[i].st = "Pending"
    /\ LET t == evals[e].tasks[i]
           r == hook_run(t.hook, HookContext(t.id.hook_name, t.config, evals[e].cs_id))
       IN  evals' = [evals EXCEPT ![e].tasks[i] =
               [t EXCEPT !.st = IF r.ok THEN "Done" ELSE "Failed", !.exec = r.exec]]
    /\ UNCHANGED <<changeset_hooks, file_hooks, bookmark_hooks, cache, lru, store,
                   fills, ncalls, nconf,
                   file_hooks_lock, hook_names, passed,
                   content_store, helper, receiver, hook_manager>>

(***************************************************************************)
(* The verdict cache (asyncmemo, constructed at lines 116-126): a slot is   *)
(* Waiting (the pending computation every get of the key awaits) or         *)
(* Complete (the verdict); completed slots are bounded by entrylimit and    *)
(* evicted least recently used first; a failed computation leaves no slot.  *)
(***************************************************************************)
CacheState(c, l, f) == [cache |-> c, lru |-> l, fills |-> f]

Touch(l, k) == SelectSeq(l, LAMBDA x : x # k) \o <<k>>

\* A filler that runs the body and config an evaluation captured at its call
\* when one that is about to poll captured the name, and else reads the
\* registry.
HookCacheFiller_fill_captured(st, id) ==
    LET k == CacheKey(id)
        captured == {h \in UNION {{evals[e].hooks[i] : i \in DOMAIN evals[e].hooks} :
                                     e \in {d \in Evals : evals[d].pc = "called"}} :
                        h.name = id.hook_name}
    IN
    IF id.hook_name \notin DOMAIN file_hooks
    THEN [panic |-> TRUE, st |-> st, fill_no |-> 0]
    ELSE LET arc_hook == IF captured # {} THEN CHOOSE h \in captured : TRUE
                         ELSE file_hooks[id.hook_name]
             n == st.fills[k] + 1
         IN  [panic |-> FALSE,
              st |-> [st EXCEPT
                         !.cache = MapInsert(@, k,
                             [state |-> "Waiting", hook |-> arc_hook.hook,
                              config |-> arc_hook.config, file |-> id.file,
                              value |-> NoExecution, fill_no |-> n]),
                         !.fills[k] = n],
              fill_no |-> n]

\* HookCacheFiller::fill (lines 858-873): the registry is read when the
\* filler runs; a name with no entry panics.
HookCacheFiller_fill(st, id) ==
    LET k == CacheKey(id) IN
    IF id.hook_name \notin DOMAIN file_hooks
    THEN [panic |-> TRUE, st |-> st, fill_no |-> 0]
    ELSE LET arc_hook == file_hooks[id.hook_name]
             n == st.fills[k] + 1
         IN  [panic |-> FALSE,
              st |-> [st EXCEPT
                         !.cache = MapInsert(@, k,
                             [state |-> "Waiting", hook |-> arc_hook.hook,
                              config |-> arc_hook.config, file |-> id.file,
                              value |-> NoExecution, fill_no |-> n]),
                         !.fills[k] = n],
              fill_no |-> n]

\* A filler whose future turns the error of the body into a rejection.
HookCacheFiller_fill_future_or_rejected(hook_name, slot) ==
    LET r == hook_run(slot.hook, HookContext(hook_name, slot.config, slot.file)) IN
    IF r.ok THEN r ELSE [ok |-> TRUE, exec |-> Rejected("error", hook_name)]

\* The future HookCacheFiller::fill returns (line 870): the run of the hook
\* on the context built from the registry entry and the file of the key.
HookCacheFiller_fill_future(hook_name, slot) ==
    hook_run(slot.hook, HookContext(hook_name, slot.config, slot.file))

\* Asyncmemo::get, at the first poll of its future.
cache_get(st, id) ==
    LET k == CacheKey(id) IN
    IF k \in DOMAIN st.cache /\ st.cache[k].state = "Complete"
    THEN [panic |-> FALSE,
          st |-> [st EXCEPT !.lru = Touch(@, k)],
          task |-> Task(id, "", HookConfig(NoBypass), "Done", st.cache[k].value,
                        st.cache[k].fill_no)]
    ELSE IF k \in DOMAIN st.cache
    THEN [panic |-> FALSE, st |-> st,
          task |-> Task(id, "", HookConfig(NoBypass), "Pending", NoExecution,
                        st.cache[k].fill_no)]
    ELSE LET f == HookCacheFiller_fill(st, id) IN
         [panic |-> f.panic, st |-> f.st,
          task |-> Task(id, "", HookConfig(NoBypass), "Pending", NoExecution, f.fill_no)]

\* A hook run that asks the filler directly, past the cache.
run_file_hook_uncached(st, id) ==
    LET f == HookCacheFiller_fill(st, id) IN
    [panic |-> f.panic, st |-> f.st,
     task |-> Task(id, "", HookConfig(NoBypass), "Pending", NoExecution, f.fill_no)]

\* A hook run that coalesces with a pending computation but asks the filler
\* again when the verdict is already there.
run_file_hook_refill_complete(st, id) ==
    LET k == CacheKey(id) IN
    IF k \in DOMAIN st.cache /\ st.cache[k].state = "Waiting"
    THEN cache_get(st, id)
    ELSE LET f == HookCacheFiller_fill(st, id) IN
         [panic |-> f.panic, st |-> f.st,
          task |-> Task(id, "", HookConfig(NoBypass), "Pending", NoExecution, f.fill_no)]

\* HookManager::run_file_hook (lines 428-441): cache.get(key).
run_file_hook(st, id) == cache_get(st, id)

\* The first poll of the gets of an evaluation, in order.
RECURSIVE poll_gets(_, _, _)
poll_gets(ids, st, tasks) ==
    IF ids = <<>> THEN [panic |-> FALSE, st |-> st, tasks |-> tasks]
    ELSE LET r == run_file_hook(st, Head(ids)) IN
         IF r.panic THEN [panic |-> TRUE, st |-> st, tasks |-> tasks]
         ELSE poll_gets(Tail(ids), r.st, Append(tasks, r.task))

\* Weight of a String (its bytes) and of an HgChangesetId.
String_get_weight(s) == Len(s)
HgChangesetId_get_weight(id) == Len(id)

\* Weight for HookFile (lines 606-610).
HookFile_get_weight(file) ==
    String_get_weight(file.path) + HgChangesetId_get_weight(file.changeset_id)

\* Weight for FileHookExecutionID (lines 891-895).
FileHookExecutionID_get_weight(id) ==
    HgChangesetId_get_weight(id.cs_id) + String_get_weight(id.hook_name)
        + HookFile_get_weight(id.file)

\* Weight for HookRejectionInfo (lines 729-733).
HookRejectionInfo_get_weight(info) ==
    size_of_HookRejectionInfo + String_get_weight(info.description)
        + String_get_weight(info.long_description)

\* A weight that counts a rejection as an acceptance.
HookExecution_get_weight_flat(exec) == size_of_HookExecution

\* Weight for HookExecution (lines 713-720).
HookExecution_get_weight(exec) ==
    IF exec.tag = "Accepted" THEN size_of_HookExecution
    ELSE size_of_HookExecution + HookRejectionInfo_get_weight(exec)

\* The weight the cache accounts for its completed slots: key and value.
RECURSIVE CacheWeight(_, _)
CacheWeight(c, keys) ==
    IF keys = <<>> THEN 0
    ELSE LET k == Head(keys) IN
         FileHookExecutionID_get_weight(FileHookExecutionID(k[1], k[2], c[k].file))
             + HookExecution_get_weight(c[k].value)
             + CacheWeight(c, Tail(keys))

\* The completed slots past entrylimit or weightlimit are evicted, least
\* recently used first.
RECURSIVE Evict(_)
Evict(st) ==
    IF Len(st.lru) <= entrylimit /\ CacheWeight(st.cache, st.lru) <= weightlimit THEN st
    ELSE Evict([st EXCEPT !.cache = MapRemove(@, Head(st.lru)), !.lru = Tail(@)])

(***************************************************************************)
(* File hooks (lines 308-441).                                             *)
(***************************************************************************)
\* A lookup that keeps the names with no entry in the registry.
file_hooks_filter_map_keep_unknown(hooks) ==
    [i \in DOMAIN hooks |->
        [name |-> hooks[i],
         hook |-> IF hooks[i] \in DOMAIN file_hooks THEN file_hooks[hooks[i]].hook
                  ELSE "accept",
         config |-> IF hooks[i] \in DOMAIN file_hooks THEN file_hooks[hooks[i]].config
                    ELSE HookConfig(NoBypass)]]

\* The filter_map of run_file_hooks_for_bookmark (lines 322-327), under the lock.
file_hooks_filter_map(hooks) ==
    LET present == SelectSeq(hooks, LAMBDA name : name \in DOMAIN file_hooks) IN
    [i \in DOMAIN present |->
        [name |-> present[i],
         hook |-> file_hooks[present[i]].hook,
         config |-> file_hooks[present[i]].config]]

\* A selection that runs file hooks on every changed file.
files_to_run_all(files) == files

\* The filter_map of run_file_hooks_for_changeset (lines 380-397).
files_to_run(files) == SelectSeq(files, LAMBDA file : file.ty \in {"Added", "Modified"})

\* Keys for the first file only.
file_hook_ids_first_file_only(cs_id, files, hooks) ==
    [n \in 1..(Min({1, Len(files)}) * Len(hooks)) |->
        FileHookExecutionID(cs_id, hooks[n].name, files[1])]

\* The keys of run_file_hooks_for_changeset and run_file_hooks: for each file
\* in order, for each hook in order.
file_hook_ids(cs_id, files, hooks) ==
    [n \in 1..(Len(files) * Len(hooks)) |->
        FileHookExecutionID(cs_id,
                            hooks[((n - 1) % Len(hooks)) + 1].name,
                            files[((n - 1) \div Len(hooks)) + 1])]

\* An entry point that takes the list out of the bindings (remove for get).
run_file_hooks_for_bookmark_take(e, changeset_id, bookmark, maybe_pushvars) ==
    /\ ncalls < MaxCalls
    /\ bookmark \in DOMAIN bookmark_hooks => file_hooks_lock = 0
    /\ evals[e].pc \in {"idle", "done"}
    /\ LET base == [IdleEval EXCEPT
                       !.kind = "file", !.cs_id = changeset_id,
                       !.bookmark = bookmark, !.pushvars = maybe_pushvars,
                       !.bound = IF bookmark \in DOMAIN bookmark_hooks
                                 THEN [some |-> TRUE, hooks |-> bookmark_hooks[bookmark]]
                                 ELSE [some |-> FALSE, hooks |-> <<>>],
                       !.registered = file_hooks]
           got == bookmark_hooks_get(bookmark)
       IN  evals' = [evals EXCEPT ![e] =
               IF ~got.some THEN [base EXCEPT !.pc = "done", !.result = Ok(<<>>)]
               ELSE [base EXCEPT !.pc = "called",
                                 !.hooks = file_hooks_filter_map(got.hooks),
                                 !.store_calls = get_hook_changeset_calls(@)]]
    /\ ncalls' = ncalls + 1
    /\ bookmark_hooks' = MapRemove(bookmark_hooks, bookmark)
    /\ UNCHANGED <<changeset_hooks, file_hooks, cache, lru, store,
                   fills, nconf,
                   file_hooks_lock, hook_names, passed,
                   content_store, helper, receiver, hook_manager>>

\* The call of the entry point: the synchronous part, up to the store calls.
run_file_hooks_for_bookmark(e, changeset_id, bookmark, maybe_pushvars) ==
    /\ ncalls < MaxCalls
    /\ bookmark \in DOMAIN bookmark_hooks => file_hooks_lock = 0
    /\ evals[e].pc \in {"idle", "done"}
    /\ LET base == [IdleEval EXCEPT
                       !.kind = "file", !.cs_id = changeset_id,
                       !.bookmark = bookmark, !.pushvars = maybe_pushvars,
                       !.bound = IF bookmark \in DOMAIN bookmark_hooks
                                 THEN [some |-> TRUE, hooks |-> bookmark_hooks[bookmark]]
                                 ELSE [some |-> FALSE, hooks |-> <<>>],
                       !.registered = file_hooks]
           got == bookmark_hooks_get(bookmark)
       IN  evals' = [evals EXCEPT ![e] =
               IF ~got.some THEN [base EXCEPT !.pc = "done", !.result = Ok(<<>>)]
               ELSE [base EXCEPT !.pc = "called",
                                 !.hooks = file_hooks_filter_map(got.hooks),
                                 !.store_calls = get_hook_changeset_calls(@)]]
    /\ ncalls' = ncalls + 1
    /\ UNCHANGED <<changeset_hooks, file_hooks, bookmark_hooks, cache, lru, store,
                   fills, nconf,
                   file_hooks_lock, hook_names, passed,
                   content_store, helper, receiver, hook_manager>>

\* The snapshot resolves: bypass filter, the deleted files are skipped, and
\* the gets of the (file, hook) pairs are polled (lines 353-441).
run_file_hooks_for_changeset(e) ==
    /\ evals[e].pc = "called"
    /\ evals[e].kind = "file"
    /\ file_hooks_lock = 0
    /\ LET ev == evals[e]
           hcs == get_hook_changeset(ev.cs_id)
           hooks == filter_bypassed_hooks(ev.hooks, hcs.comments, ev.pushvars)
           ids == file_hook_ids(ev.cs_id, files_to_run(hcs.files), hooks)
           r == poll_gets(ids, CacheState(cache, lru, fills), <<>>)
       IN  IF ~hcs.ok
           THEN /\ evals' = [evals EXCEPT ![e] = [ev EXCEPT !.pc = "done",
                                                            !.result = hcs.err]]
                /\ UNCHANGED <<cache, lru, fills>>
           ELSE /\ evals' = [evals EXCEPT ![e] =
                       IF r.panic
                       THEN [ev EXCEPT !.pc = "done", !.tasks = r.tasks,
                                       !.result = Err("panic", "Can't find hook")]
                       ELSE [ev EXCEPT !.pc = "join_all", !.tasks = r.tasks]]
                /\ cache' = r.st.cache
                /\ lru' = r.st.lru
                /\ fills' = r.st.fills
    /\ UNCHANGED <<changeset_hooks, file_hooks, bookmark_hooks, store, ncalls, nconf,
                   file_hooks_lock, hook_names, passed,
                   content_store, helper, receiver, hook_manager>>

\* The pending computation of a key completes: its verdict is recorded and
\* handed to every get awaiting it; an error is handed on and not recorded.
fill_complete(k) ==
    /\ k \in DOMAIN cache
    /\ cache[k].state = "Waiting"
    /\ LET slot == cache[k]
           r == HookCacheFiller_fill_future(k[2], slot)
           st == IF r.ok
                 THEN Evict(CacheState(
                          [cache EXCEPT ![k].state = "Complete", ![k].value = r.exec],
                          Append(lru, k), fills))
                 ELSE CacheState(MapRemove(cache, k), lru, fills)
       IN  /\ cache' = st.cache
           /\ lru' = st.lru
           /\ evals' = [e \in Evals |-> [evals[e] EXCEPT !.tasks =
                  [i \in DOMAIN @ |->
                      IF /\ @[i].st = "Pending"
                         /\ evals[e].kind = "file"
                         /\ CacheKey(@[i].id) = k
                         /\ @[i].fill_no = slot.fill_no
                      THEN [@[i] EXCEPT !.st = IF r.ok THEN "Done" ELSE "Failed",
                                        !.exec = r.exec]
                      ELSE @[i]]]]
    /\ UNCHANGED <<changeset_hooks, file_hooks, bookmark_hooks, store, fills, ncalls,
                   nconf,
                   file_hooks_lock, hook_names, passed,
                   content_store, helper, receiver, hook_manager>>

(***************************************************************************)
(* The same evaluation, one poll at a time: the filler's use of the mutex   *)
(* of file_hooks (lines 858-873) is three steps, the lock, the call of the  *)
(* hook's run under the guard, and the return that drops the guard.         *)
(***************************************************************************)
\* The execution ids of evaluation e, in the order run_file_hooks builds its
\* gets (lines 353-426).
eval_file_hook_ids(e) ==
    LET ev == evals[e]
        hcs == get_hook_changeset(ev.cs_id)
    IN  file_hook_ids(ev.cs_id, files_to_run(hcs.files),
                      filter_bypassed_hooks(ev.hooks, hcs.comments, ev.pushvars))

\* The position of an evaluation whose tasks are now `tasks`.
pc_after_get(e, tasks) ==
    IF Len(tasks) = Len(eval_file_hook_ids(e)) THEN "join_all" ELSE "gets"

\* The snapshot resolves and the gets are built, none polled yet.
run_file_hooks(e) ==
    /\ evals[e].pc = "called"
    /\ evals[e].kind = "file"
    /\ LET ev == evals[e]
           hcs == get_hook_changeset(ev.cs_id)
       IN  evals' = [evals EXCEPT ![e] =
               IF ~hcs.ok THEN [ev EXCEPT !.pc = "done", !.result = hcs.err]
               ELSE [ev EXCEPT !.pc = pc_after_get(e, <<>>)]]
    /\ UNCHANGED <<changeset_hooks, file_hooks, bookmark_hooks, cache, lru, store,
                   fills, ncalls, nconf, file_hooks_lock, hook_names, passed,
                   content_store, helper, receiver, hook_manager>>

\* The first poll of the next get finds a slot for its key.
cache_get_hit(e) ==
    /\ evals[e].pc = "gets"
    /\ LET ev == evals[e]
           id == eval_file_hook_ids(e)[Len(ev.tasks) + 1]
           r == cache_get(CacheState(cache, lru, fills), id)
           tasks == Append(ev.tasks, r.task)
       IN  /\ CacheKey(id) \in DOMAIN cache
           /\ evals' = [evals EXCEPT ![e] =
                           [ev EXCEPT !.tasks = tasks, !.pc = pc_after_get(e, tasks)]]
           /\ lru' = r.st.lru
    /\ UNCHANGED <<changeset_hooks, file_hooks, bookmark_hooks, cache, store, fills,
                   ncalls, nconf, file_hooks_lock, hook_names, passed,
                   content_store, helper, receiver, hook_manager>>

\* The first poll of the next get finds no slot: the filler is called and
\* locks file_hooks (line 859).
fill_lock(e) ==
    /\ evals[e].pc = "gets"
    /\ CacheKey(eval_file_hook_ids(e)[Len(evals[e].tasks) + 1]) \notin DOMAIN cache
    /\ file_hooks_lock = 0
    /\ file_hooks_lock' = e
    /\ evals' = [evals EXCEPT ![e].pc = "fill"]
    /\ UNCHANGED <<changeset_hooks, file_hooks, bookmark_hooks, cache, lru, store,
                   fills, ncalls, nconf, hook_names, passed,
                   content_store, helper, receiver, hook_manager>>

\* The filler looks the name up and calls the hook's run (lines 860-870), or
\* panics (line 871); the guard `hooks` is alive in both arms.
fill_call_run(e) ==
    /\ evals[e].pc = "fill"
    /\ LET ev == evals[e]
           id == eval_file_hook_ids(e)[Len(ev.tasks) + 1]
       IN  IF id.hook_name \in DOMAIN file_hooks
           THEN /\ evals' = [evals EXCEPT ![e].pc = "run"]
                /\ UNCHANGED file_hooks_lock
           ELSE /\ evals' = [evals EXCEPT ![e] =
                       [ev EXCEPT !.pc = "done",
                                  !.result = Err("panic", "Can't find hook")]]
                /\ file_hooks_lock' = 0
    /\ UNCHANGED <<changeset_hooks, file_hooks, bookmark_hooks, cache, lru, store,
                   fills, ncalls, nconf, hook_names, passed,
                   content_store, helper, receiver, hook_manager>>

\* A return of fill that leaks the guard of file_hooks.
fill_return_keep_guard(e) ==
    /\ evals[e].pc = "run"
    /\ LET ev == evals[e]
           id == eval_file_hook_ids(e)[Len(ev.tasks) + 1]
           f == HookCacheFiller_fill(CacheState(cache, lru, fills), id)
           tasks == Append(ev.tasks, Task(id, "", HookConfig(NoBypass), "Pending",
                                          NoExecution, f.fill_no))
       IN  /\ evals' = [evals EXCEPT ![e] =
                           [ev EXCEPT !.tasks = tasks, !.pc = pc_after_get(e, tasks)]]
           /\ cache' = f.st.cache
           /\ fills' = f.st.fills
    /\ UNCHANGED file_hooks_lock
    /\ UNCHANGED <<changeset_hooks, file_hooks, bookmark_hooks, lru, store, ncalls,
                   nconf, hook_names, passed,
                   content_store, helper, receiver, hook_manager>>

\* run returns its future and fill returns it (line 873): the guard is
\* dropped, and the cache keeps the future as the pending slot of the key.
fill_return(e) ==
    /\ evals[e].pc = "run"
    /\ LET ev == evals[e]
           id == eval_file_hook_ids(e)[Len(ev.tasks) + 1]
           f == HookCacheFiller_fill(CacheState(cache, lru, fills), id)
           tasks == Append(ev.tasks, Task(id, "", HookConfig(NoBypass), "Pending",
                                          NoExecution, f.fill_no))
       IN  /\ evals' = [evals EXCEPT ![e] =
                           [ev EXCEPT !.tasks = tasks, !.pc = pc_after_get(e, tasks)]]
           /\ cache' = f.st.cache
           /\ fills' = f.st.fills
    /\ file_hooks_lock' = 0
    /\ UNCHANGED <<changeset_hooks, file_hooks, bookmark_hooks, lru, store, ncalls,
                   nconf, hook_names, passed,
                   content_store, helper, receiver, hook_manager>>

\* A getter that collects the names of both registries.
changeset_hook_names_of_both == DOMAIN changeset_hooks \cup DOMAIN file_hooks

\* HookManager::changeset_hook_names (lines 180-185): the keys, collected
\* into a set of the caller's own.
changeset_hook_names == DOMAIN changeset_hooks

\* HookManager::file_hook_names (lines 187-194): the keys, collected under
\* the mutex of file_hooks.
file_hook_names == DOMAIN file_hooks

\* A caller calls changeset_hook_names and keeps what it returns.
call_changeset_hook_names ==
    /\ hook_names' = [hook_names EXCEPT !.changeset = changeset_hook_names]
    /\ UNCHANGED <<changeset_hooks, file_hooks, bookmark_hooks, cache, lru, store,
                   evals, fills, ncalls, nconf, file_hooks_lock, passed,
                   content_store, helper, receiver, hook_manager>>

\* A caller calls file_hook_names and keeps what it returns.
call_file_hook_names ==
    /\ file_hooks_lock = 0
    /\ hook_names' = [hook_names EXCEPT !.file = file_hook_names]
    /\ UNCHANGED <<changeset_hooks, file_hooks, bookmark_hooks, cache, lru, store,
                   evals, fills, ncalls, nconf, file_hooks_lock, passed,
                   content_store, helper, receiver, hook_manager>>

(***************************************************************************)
(* The helpers of HookFile (lines 636-675) and HookChangeset::file_content  *)
(* (lines 698-704) over the content store (lines 813-846).                  *)
(***************************************************************************)
\* Option<_>
None == [some |-> FALSE, value |-> <<>>]
Some(v) == [some |-> TRUE, value |-> v]

\* What a helper's future resolves to.
FutureOk(v) == [ok |-> TRUE, value |-> v, kind |-> "", cs_id |-> "", path |-> ""]
FutureErr(kind, cs_id, path) ==
    [ok |-> FALSE, value |-> <<>>, kind |-> kind, cs_id |-> cs_id, path |-> path]

\* InMemoryFileContentStore::get_file_content_for_changeset (lines 827-838).
get_file_content_for_changeset(changesetid, path) ==
    IF <<changesetid, path>> \in DOMAIN content_store
    THEN Some(content_store[<<changesetid, path>>])
    ELSE None

\* A file_content that takes a missing content for an empty one.
HookFile_file_content_or_empty(file) ==
    LET opt == get_file_content_for_changeset(file.changeset_id, file.path) IN
    IF opt.some THEN FutureOk(opt.value.bytes) ELSE FutureOk(<<>>)

\* HookFile::file_content (lines 653-663).
HookFile_file_content(file) ==
    LET opt == get_file_content_for_changeset(file.changeset_id, file.path) IN
    IF opt.some THEN FutureOk(opt.value.bytes)
    ELSE FutureErr("NoFileContent", file.changeset_id, file.path)

\* HookFile::contains_string (lines 636-645).
HookFile_contains_string(file, data) ==
    LET bytes == HookFile_file_content(file) IN
    IF ~bytes.ok THEN bytes
    ELSE LET str_content == from_utf8(bytes.value) IN
         IF ~str_content.ok THEN FutureErr("Utf8Error", "", "")
         ELSE FutureOk(str_contains(str_content.str, data))

\* HookFile::len (lines 647-651).
HookFile_len(file) ==
    LET bytes == HookFile_file_content(file) IN
    IF ~bytes.ok THEN bytes ELSE FutureOk(Len(bytes.value))

\* HookFile::file_type (lines 665-675).
HookFile_file_type(file) ==
    LET opt == get_file_content_for_changeset(file.changeset_id, file.path) IN
    IF opt.some THEN FutureOk(opt.value.file_type)
    ELSE FutureErr("NoFileContent", file.changeset_id, file.path)

\* HookChangeset::file_content (lines 698-704).
HookChangeset_file_content(changeset_id, path) ==
    LET opt == get_file_content_for_changeset(changeset_id, path) IN
    FutureOk(IF opt.some THEN Some(opt.value.bytes) ELSE None)

NoHelperCall == [op |-> "", cs_id |-> "", path |-> "", result |-> FutureOk(<<>>)]
HelperCall(op, cs_id, path, result) ==
    [op |-> op, cs_id |-> cs_id, path |-> path, result |-> result]

\* A hook calls a helper of the file it was given and awaits the future.
call_HookFile(op, file, data) ==
    /\ op \in {"file_content", "len", "contains_string", "file_type"}
    /\ helper' = [helper EXCEPT !.file =
          HelperCall(op, file.changeset_id, file.path,
              CASE op = "file_content" -> HookFile_file_content(file)
                [] op = "len" -> HookFile_len(file)
                [] op = "contains_string" -> HookFile_contains_string(file, data)
                [] op = "file_type" -> HookFile_file_type(file))]
    /\ UNCHANGED <<changeset_hooks, file_hooks, bookmark_hooks, cache, lru, store,
                   evals, fills, ncalls, nconf, file_hooks_lock, hook_names, passed,
                   content_store, receiver, hook_manager>>

\* A hook calls file_content of the changeset snapshot it was given.
call_HookChangeset_file_content(changeset_id, path) ==
    /\ helper' = [helper EXCEPT !.changeset =
          HelperCall("file_content", changeset_id, path,
                     HookChangeset_file_content(changeset_id, path))]
    /\ UNCHANGED <<changeset_hooks, file_hooks, bookmark_hooks, cache, lru, store,
                   evals, fills, ncalls, nconf, file_hooks_lock, hook_names, passed,
                   content_store, receiver, hook_manager>>

(***************************************************************************)
(* The command receiver (receiver.rs): a TCP service that reads one JSON    *)
(* message per connection and calls the action registered for its command. *)
(***************************************************************************)
\* enum CommandName (lines 18-28), by the serde names.
CommandNames ==
    {"commitcloud::restart_subscriptions", "commitcloud::cancel_subscriptions",
     "commitcloud::start_subscriptions"}

\* What a connection delivers: a JSON pair of a name and an object, or bytes
\* that are no such pair.
Messages ==
    {[json |-> TRUE, name |-> n] : n \in CommandNames \cup {"other::command"}}
        \cup {[json |-> FALSE, name |-> ""]}
NoMessage == [json |-> FALSE, name |-> "none"]

\* serde_json::from_slice::<Command> (line 81): the name must be a variant of
\* CommandName.
serde_json_from_slice(buf) ==
    IF buf.json /\ buf.name \in CommandNames
    THEN [ok |-> TRUE, name |-> buf.name]
    ELSE [ok |-> FALSE, name |-> ""]

\* TcpReceiverService::new (lines 52-57); the serve task is not spawned yet.
TcpReceiverService_new ==
    [pc |-> "built", actions |-> {}, buf |-> NoMessage, called |-> <<>>, accepted |-> 0]

\* TcpReceiverService::with_actions (lines 59-69).
with_actions(actions) ==
    /\ receiver.pc = "built"
    /\ receiver' = [receiver EXCEPT !.actions = @ \cup actions]
    /\ UNCHANGED <<changeset_hooks, file_hooks, bookmark_hooks, cache, lru, store,
                   evals, fills, ncalls, nconf, file_hooks_lock, hook_names, passed,
                   content_store, helper, hook_manager>>

\* TcpReceiverService::serve (lines 71-75): the task is spawned and listens.
serve ==
    /\ receiver.pc = "built"
    /\ receiver' = [receiver EXCEPT !.pc = "listening"]
    /\ UNCHANGED <<changeset_hooks, file_hooks, bookmark_hooks, cache, lru, store,
                   evals, fills, ncalls, nconf, file_hooks_lock, hook_names, passed,
                   content_store, helper, hook_manager>>

\* One turn of the loop of serve (lines 76-91): a connection is accepted and
\* read to its end; a message that does not deserialize ends the task with
\* the error (the `?` of line 81), else the action of the command, if one is
\* registered, is called.
serve_connection(buf) ==
    /\ receiver.pc = "listening"
    /\ receiver.accepted < MaxConnections
    /\ LET command == serde_json_from_slice(buf) IN
       receiver' = [receiver EXCEPT
           !.buf = buf,
           !.accepted = @ + 1,
           !.pc = IF command.ok THEN "listening" ELSE "failed",
           !.called = IF command.ok /\ command.name \in receiver.actions
                      THEN Append(@, command.name) ELSE @]
    /\ UNCHANGED <<changeset_hooks, file_hooks, bookmark_hooks, cache, lru, store,
                   evals, fills, ncalls, nconf, file_hooks_lock, hook_names, passed,
                   content_store, helper, hook_manager>>

(***************************************************************************)
(* HookManager::new (lines 105-154): the access-control checker of the      *)
(* reviewers group is created and waited for, unless the parameters         *)
(* disable it.                                                              *)
(***************************************************************************)
\* facebook::REVIEWERS_ACL_GROUP_NAME
REVIEWERS_ACL_GROUP_NAME == "reviewers"

\* AclChecker::new(&Identity::from_groupname(name))
AclChecker_new(groupname) == <<groupname>>

\* The initial membership sync of a checker: it never completes, or it
\* completes after ms milliseconds.
NeverSyncs == [completes |-> FALSE, ms |-> 0]
SyncsAfter(ms) == [completes |-> TRUE, ms |-> ms]

\* AclChecker::do_wait_updated(timeout_ms): whether the sync completed
\* within the timeout.
do_wait_updated(sync, timeout_ms) == sync.completes /\ sync.ms <= timeout_ms

\* The manager before new is called.
NotConstructed ==
    [pc |-> "unbuilt", disable_acl_checker |-> FALSE, created |-> 0, waits |-> 0,
     sync |-> NeverSyncs, reviewers_acl_checker |-> None]

\* A construction that keeps the checker whatever the wait returned.
HookManager_new_keep_checker(disable_acl_checker, sync) ==
    IF ~disable_acl_checker
    THEN LET reviewers_acl_checker == AclChecker_new(REVIEWERS_ACL_GROUP_NAME) IN
         [pc |-> "built", disable_acl_checker |-> disable_acl_checker,
          created |-> 1, waits |-> 1, sync |-> sync,
          reviewers_acl_checker |-> Some(reviewers_acl_checker)]
    ELSE [pc |-> "built", disable_acl_checker |-> disable_acl_checker,
          created |-> 0, waits |-> 0, sync |-> sync,
          reviewers_acl_checker |-> None]

\* The reviewers_acl_checker of new (lines 128-141), with the calls it made:
\* `created` counts AclChecker::new, `waits` counts do_wait_updated(10000).
HookManager_new(disable_acl_checker, sync) ==
    IF ~disable_acl_checker
    THEN LET reviewers_acl_checker == AclChecker_new(REVIEWERS_ACL_GROUP_NAME)
             updated == do_wait_updated(sync, 10000)
         IN  [pc |-> "built", disable_acl_checker |-> disable_acl_checker,
              created |-> 1, waits |-> 1, sync |-> sync,
              reviewers_acl_checker |-> IF updated THEN Some(reviewers_acl_checker)
                                        ELSE None]
    ELSE [pc |-> "built", disable_acl_checker |-> disable_acl_checker,
          created |-> 0, waits |-> 0, sync |-> sync,
          reviewers_acl_checker |-> None]

\* The call of new: the maps and the cache are created empty (lines 113-126)
\* and the manager is returned (lines 143-153).
call_HookManager_new(disable_acl_checker, sync) ==
    /\ hook_manager.pc = "unbuilt"
    /\ hook_manager' = HookManager_new(disable_acl_checker, sync)
    /\ changeset_hooks' = <<>>
    /\ file_hooks' = <<>>
    /\ bookmark_hooks' = <<>>
    /\ cache' = <<>>
    /\ lru' = <<>>
    /\ UNCHANGED <<store, evals, fills, ncalls, nconf, file_hooks_lock, hook_names,
                   passed, content_store, helper, receiver>>

(***************************************************************************)
(* Inputs and specifications.                                              *)
(***************************************************************************)
\* A changeset of the store: HgBlobChangeset's user and comments (bytes) and
\* the changed files the store reports for it.
Changeset(user, comments, files) == [user |-> user, comments |-> comments, files |-> files]
ChangedFile(path, ty) == [path |-> path, ty |-> ty]

\* The state after HookManager::new (lines 105-154): no hook, no binding, an
\* empty cache; the stores hold what they were given.
InitManager ==
    /\ changeset_hooks = <<>>
    /\ file_hooks = <<>>
    /\ bookmark_hooks = <<>>
    /\ cache = <<>>
    /\ lru = <<>>
    /\ evals = [e \in Evals |-> IdleEval]
    /\ fills = [k \in Keys |-> 0]
    /\ ncalls = 0
    /\ nconf = 0
    /\ file_hooks_lock = 0
    /\ hook_names = [changeset |-> {}, file |-> {}]
    /\ passed = [changeset |-> <<>>, file |-> <<>>, bookmark |-> <<>>]
    /\ helper = [file |-> NoHelperCall, changeset |-> NoHelperCall]
    /\ hook_manager = HookManager_new(TRUE, NeverSyncs)

\* An evaluation slot is free when it was never used or when its result has
\* been returned; a call takes the first slot never used, or else the first
\* whose result has been returned, so at most two evaluations are in flight
\* at a time.
FreeSlot(e) ==
    \/ /\ evals[e].pc = "idle"
       /\ \A d \in Evals : d < e => evals[d].pc # "idle"
    \/ /\ evals[e].pc = "done"
       /\ \A d \in Evals : evals[d].pc # "idle"
       /\ \A d \in Evals : d < e => evals[d].pc # "done"

\* No evaluation is in flight. The setters take &mut self: the specifications
\* configure the manager between evaluations, except that Spec also registers
\* file hooks (the registry the filler shares) under evaluations in flight.
Quiescent == \A e \in Evals : evals[e].pc \in {"idle", "done"}

\* The evaluation steps that follow the calls.
StepsChangeset ==
    \/ \E e \in Evals : run_changeset_hooks_for_changeset(e)
    \/ \E e \in Evals : \E i \in DOMAIN evals[e].tasks : run_changeset_hook(e, i)

StepsFile ==
    \/ \E e \in Evals : run_file_hooks_for_changeset(e)
    \/ \E k \in Keys : fill_complete(k)

CallChangeset(changeset_id, bookmark, maybe_pushvars) ==
    \E e \in Evals :
        /\ FreeSlot(e)
        /\ run_changeset_hooks_for_bookmark(e, changeset_id, bookmark, maybe_pushvars)

CallFile(changeset_id, bookmark, maybe_pushvars) ==
    \E e \in Evals :
        /\ FreeSlot(e)
        /\ run_file_hooks_for_bookmark(e, changeset_id, bookmark, maybe_pushvars)

(***************************************************************************)
(* Spec: both paths. One accepting (or rejecting) and one failing hook of   *)
(* each kind, a bookmark bound to both and a bookmark never bound, a        *)
(* changeset the store holds and one it does not.                           *)
(***************************************************************************)
Init ==
    /\ InitManager
    /\ receiver = TcpReceiverService_new
    /\ content_store = <<>>
    /\ store = [c \in {"c1"} |->
                   Changeset(<<117>>, <<97, 98>>,
                             <<ChangedFile("a", "Added"), ChangedFile("b", "Modified")>>)]

\* The changeset the store holds for the bound bookmark, and one it does not
\* hold for the bookmark never bound.
Calls == {<<"c1", "master">>, <<"c2", "other">>}

Next ==
    \/ \E r \in {<<"h1", "accept">>, <<"h2", "fail">>} :
          Quiescent /\ register_changeset_hook(r[1], r[2], HookConfig(NoBypass))
    \/ \E r \in {<<"h1", "reject">>, <<"h2", "fail">>} :
          register_file_hook(r[1], r[2], HookConfig(NoBypass))
    \/ \E hooks \in {<<"h1", "h2">>, <<"h2", "h1">>} :
          Quiescent /\ set_hooks_for_bookmark("master", hooks)
    \/ \E c \in Calls : CallChangeset(c[1], c[2], NoPushvars)
    \/ \E c \in Calls : CallFile(c[1], c[2], NoPushvars)
    \/ StepsChangeset
    \/ StepsFile
    \/ \E e \in Evals : join_all_poll(e)

Spec == Init /\ [][Next]_vars

(***************************************************************************)
(* SpecFile: the file path. Two names, one of them registered with a        *)
(* commit-message bypass or a failing body; bindings with an unregistered   *)
(* name and a repeated name; changesets with added, modified and deleted    *)
(* files; up to two file evaluations in flight at a time.                   *)
(***************************************************************************)
\* The changesets of SpecFile: one with a deleted file whose message holds
\* the bypass string of h2, one with two live files whose message does not.
FileChangesets ==
    {Changeset(<<117>>, <<97, 98>>,
               <<ChangedFile("a", "Added"), ChangedFile("b", "Deleted")>>),
     Changeset(<<117>>, <<97>>,
               <<ChangedFile("a", "Modified"), ChangedFile("b", "Added")>>)}

Catalogue ==
    {<<"h1", "accept", HookConfig(NoBypass)>>,
     <<"h1", "reject", HookConfig(NoBypass)>>,
     <<"h2", "accept", HookConfig(CommitMessage(<<98>>))>>,
     <<"h2", "fail", HookConfig(NoBypass)>>}

Bindings == {<<"h1">>, <<"h1", "h2">>, <<"h1", "h1">>}

InitFile ==
    /\ InitManager
    /\ receiver = TcpReceiverService_new
    /\ content_store = <<>>
    /\ \E changeset \in FileChangesets : store = [c \in {"c1"} |-> changeset]

NextFile ==
    \/ \E r \in Catalogue : Quiescent /\ register_file_hook(r[1], r[2], r[3])
    \/ \E hooks \in Bindings : Quiescent /\ set_hooks_for_bookmark("master", hooks)
    \/ CallFile("c1", "master", NoPushvars)
    \/ StepsFile
    \/ \E e \in Evals : join_all_poll(e)

SpecFile == InitFile /\ [][NextFile]_vars

(***************************************************************************)
(* SpecChangeset: the changeset path, with the same names, bodies,          *)
(* bypasses and bindings.                                                   *)
(***************************************************************************)
InitChangeset ==
    /\ InitManager
    /\ receiver = TcpReceiverService_new
    /\ content_store = <<>>
    /\ \E msg \in {<<97>>, <<97, 98>>} :
          store = [c \in {"c1"} |->
                      Changeset(<<117>>, msg, <<ChangedFile("a", "Added")>>)]

NextChangeset ==
    \/ \E r \in Catalogue : Quiescent /\ register_changeset_hook(r[1], r[2], r[3])
    \/ \E hooks \in Bindings : Quiescent /\ set_hooks_for_bookmark("master", hooks)
    \/ CallChangeset("c1", "master", NoPushvars)
    \/ StepsChangeset
    \/ \E e \in Evals : join_all_poll(e)

SpecChangeset == InitChangeset /\ [][NextChangeset]_vars

(***************************************************************************)
(* SpecBypassMsg: one hook of each kind with a commit-message bypass, bound *)
(* to the bookmark, against every commit message of up to MaxMsgLen bytes   *)
(* over 'a', 'A' and 'b'.                                                   *)
(***************************************************************************)
SeqsUpTo(S, n) == UNION {[1..k -> S] : k \in 0..n}

MsgBytes == {97, 65, 98}
BypassStrings == {<<>>, <<97>>, <<97, 98>>}

InitBypassMsg ==
    /\ InitManager
    /\ receiver = TcpReceiverService_new
    /\ content_store = <<>>
    /\ \E msg \in SeqsUpTo(MsgBytes, MaxMsgLen) :
          store = [c \in {"c1"} |->
                      Changeset(<<117>>, msg, <<ChangedFile("a", "Added")>>)]

NextBypassMsg ==
    \/ \E s \in BypassStrings :
          Quiescent /\ register_changeset_hook("h1", "accept", HookConfig(CommitMessage(s)))
    \/ \E s \in BypassStrings :
          Quiescent /\ register_file_hook("h1", "reject", HookConfig(CommitMessage(s)))
    \/ Quiescent /\ set_hooks_for_bookmark("master", <<"h1">>)
    \/ Quiescent /\ CallChangeset("c1", "master", NoPushvars)
    \/ Quiescent /\ CallFile("c1", "master", NoPushvars)
    \/ StepsChangeset
    \/ StepsFile
    \/ \E e \in Evals : join_all_poll(e)

SpecBypassMsg == InitBypassMsg /\ [][NextBypassMsg]_vars

(***************************************************************************)
(* SpecBypassVar: one hook of each kind with a push-variable bypass, bound  *)
(* to the bookmark, called without push variables, with none set, with      *)
(* another one set, and with every value of up to MaxPushvarLen bytes over  *)
(* 'y' and the two bytes of U+00E9; one evaluation at a time.               *)
(***************************************************************************)
PushvarBytes == {121, 195, 169}
BypassValues == {<<121>>, <<233>>}

PushvarInputs ==
    {NoPushvars, SomePushvars(<<>>), SomePushvars([n \in {"OTHER"} |-> <<121>>])}
    \cup {SomePushvars([n \in {"OVERRIDE"} |-> v]) :
              v \in SeqsUpTo(PushvarBytes, MaxPushvarLen)}

InitBypassVar ==
    /\ InitManager
    /\ receiver = TcpReceiverService_new
    /\ content_store = <<>>
    /\ store = [c \in {"c1"} |->
                   Changeset(<<117>>, <<97>>, <<ChangedFile("a", "Added")>>)]

NextBypassVar ==
    \/ \E v \in BypassValues :
          Quiescent /\ register_changeset_hook("h1", "accept",
                                               HookConfig(Pushvar("OVERRIDE", v)))
    \/ \E v \in BypassValues :
          Quiescent /\ register_file_hook("h1", "reject",
                                          HookConfig(Pushvar("OVERRIDE", v)))
    \/ Quiescent /\ set_hooks_for_bookmark("master", <<"h1">>)
    \/ \E pv \in PushvarInputs : run_changeset_hooks_for_bookmark(1, "c1", "master", pv)
    \/ \E pv \in PushvarInputs : run_file_hooks_for_bookmark(1, "c1", "master", pv)
    \/ StepsChangeset
    \/ StepsFile
    \/ \E e \in Evals : join_all_poll(e)

SpecBypassVar == InitBypassVar /\ [][NextBypassVar]_vars

(***************************************************************************)
(* SpecStore: the store fails. The changeset the store holds has an author  *)
(* or a commit message that is or is not UTF-8, and a changeset id the      *)
(* store does not hold is evaluated for the bound bookmark too; a rejecting *)
(* and a failing hook of each kind.                                         *)
(***************************************************************************)
InitStore ==
    /\ InitManager
    /\ receiver = TcpReceiverService_new
    /\ content_store = <<>>
    /\ \E user \in {<<117>>, <<255>>}, comments \in {<<97>>, <<195>>} :
          store = [c \in {"c1"} |->
                      Changeset(user, comments, <<ChangedFile("a", "Added")>>)]

NextStore ==
    \/ \E r \in {<<"h1", "reject">>, <<"h2", "fail">>} :
          Quiescent /\ register_changeset_hook(r[1], r[2], HookConfig(NoBypass))
    \/ \E r \in {<<"h1", "reject">>, <<"h2", "fail">>} :
          Quiescent /\ register_file_hook(r[1], r[2], HookConfig(NoBypass))
    \/ Quiescent /\ set_hooks_for_bookmark("master", <<"h1", "h2">>)
    \/ \E cs \in CsIds : CallChangeset(cs, "master", NoPushvars)
    \/ \E cs \in CsIds : CallFile(cs, "master", NoPushvars)
    \/ StepsChangeset
    \/ StepsFile
    \/ \E e \in Evals : join_all_poll(e)

SpecStore == InitStore /\ [][NextStore]_vars

(***************************************************************************)
(* SpecLock: the mutex of file_hooks. File evaluations of a changeset with  *)
(* two files under a bookmark bound to two hooks, polled one get at a time, *)
(* while file hooks are registered and the names are read concurrently.     *)
(***************************************************************************)
InitLock ==
    /\ InitManager
    /\ receiver = TcpReceiverService_new
    /\ content_store = <<>>
    /\ store = [c \in {"c1"} |->
                   Changeset(<<117>>, <<97>>,
                             <<ChangedFile("a", "Added"), ChangedFile("b", "Modified")>>)]

NextLock ==
    \/ \E r \in {<<"h1", "accept">>, <<"h2", "reject">>} :
          register_file_hook(r[1], r[2], HookConfig(NoBypass))
    \/ Quiescent /\ set_hooks_for_bookmark("master", <<"h1", "h2">>)
    \/ CallFile("c1", "master", NoPushvars)
    \/ \E e \in Evals : run_file_hooks(e)
    \/ \E e \in Evals : cache_get_hit(e)
    \/ \E e \in Evals : fill_lock(e)
    \/ \E e \in Evals : fill_call_run(e)
    \/ \E e \in Evals : fill_return(e)
    \/ \E k \in Keys : fill_complete(k)
    \/ \E e \in Evals : join_all_poll(e)
    \/ call_file_hook_names

SpecLock == InitLock /\ [][NextLock]_vars

(***************************************************************************)
(* SpecRegistry: the two registries. Either name is registered, and         *)
(* registered again, in either registry, with an accepting body and no      *)
(* bypass or a rejecting body and a bypass; the names are read in between,  *)
(* and                                                                      *)
(* evaluations for a bookmark never bound keep the registry they saw.       *)
(***************************************************************************)
RegistryEntries ==
    {<<"accept", HookConfig(NoBypass)>>, <<"reject", HookConfig(CommitMessage(<<97>>))>>}

NextRegistry ==
    \/ \E n \in HookNames, r \in RegistryEntries : register_changeset_hook(n, r[1], r[2])
    \/ \E n \in HookNames, r \in RegistryEntries : register_file_hook(n, r[1], r[2])
    \/ call_changeset_hook_names
    \/ call_file_hook_names
    \/ CallChangeset("c1", "other", NoPushvars)
    \/ CallFile("c1", "other", NoPushvars)

SpecRegistry == Init /\ [][NextRegistry]_vars

(***************************************************************************)
(* SpecBind: the bindings. Two accepting hooks of each kind, two bookmarks  *)
(* bound and bound again to either hook or to both, and evaluations of      *)
(* both kinds for either bookmark.                                          *)
(***************************************************************************)
BindLists == {<<"h1">>, <<"h2">>, <<"h1", "h2">>}

NextBind ==
    \/ \E n \in HookNames :
          Quiescent /\ register_changeset_hook(n, "accept", HookConfig(NoBypass))
    \/ \E n \in HookNames :
          Quiescent /\ register_file_hook(n, "accept", HookConfig(NoBypass))
    \/ \E b \in Bookmarks, hooks \in BindLists :
          Quiescent /\ set_hooks_for_bookmark(b, hooks)
    \/ \E b \in Bookmarks : CallChangeset("c1", b, NoPushvars)
    \/ \E b \in Bookmarks : CallFile("c1", b, NoPushvars)
    \/ StepsChangeset
    \/ StepsFile
    \/ \E e \in Evals : join_all_poll(e)

SpecBind == InitLock /\ [][NextBind]_vars

(***************************************************************************)
(* SpecContent: the content store holds a content for neither, either or    *)
(* both paths of changeset c1, UTF-8 or not, and none for c2; hooks call    *)
(* every helper on every file and path of both changesets.                  *)
(***************************************************************************)
Contents ==
    {[file_type |-> "Regular", bytes |-> <<97>>],
     [file_type |-> "Executable", bytes |-> <<98, 97>>],
     [file_type |-> "Regular", bytes |-> <<255>>]}

ContentStores ==
    UNION {[{<<"c1", p>> : p \in K} -> Contents] : K \in SUBSET Paths}

InitContent ==
    /\ InitManager
    /\ receiver = TcpReceiverService_new
    /\ store = [c \in {"c1"} |->
                   Changeset(<<117>>, <<97>>,
                             <<ChangedFile("a", "Added"), ChangedFile("b", "Modified")>>)]
    /\ content_store \in ContentStores

NextContent ==
    \/ \E op \in {"file_content", "len", "contains_string", "file_type"},
          cs \in CsIds, p \in Paths, ty \in {"Added", "Modified"}, data \in {<<97>>, <<98>>} :
          call_HookFile(op, HookFile(p, cs, ty), data)
    \/ \E cs \in CsIds, p \in Paths : call_HookChangeset_file_content(cs, p)

SpecContent == InitContent /\ [][NextContent]_vars

(***************************************************************************)
(* SpecReceiver: the command receiver, built with any actions, served, and  *)
(* sent up to MaxConnections messages: the three commands, a command it     *)
(* does not know, and bytes that are not JSON.                              *)
(***************************************************************************)
InitReceiver ==
    /\ InitManager
    /\ store = <<>>
    /\ content_store = <<>>
    /\ receiver = TcpReceiverService_new

NextReceiver ==
    \/ \E actions \in SUBSET CommandNames : with_actions(actions)
    \/ serve
    \/ \E buf \in Messages : serve_connection(buf)

SpecReceiver == InitReceiver /\ [][NextReceiver]_vars

(***************************************************************************)
(* SpecEmpty: the empty binding. One accepting hook of each kind, the       *)
(* bookmark bound to no name or to the hook, and evaluations of both kinds  *)
(* for the changeset the store holds and for one it does not.               *)
(***************************************************************************)
NextEmpty ==
    \/ Quiescent /\ register_changeset_hook("h1", "accept", HookConfig(NoBypass))
    \/ Quiescent /\ register_file_hook("h1", "accept", HookConfig(NoBypass))
    \/ \E hooks \in {<<>>, <<"h1">>} : Quiescent /\ set_hooks_for_bookmark("master", hooks)
    \/ \E cs \in CsIds : CallChangeset(cs, "master", NoPushvars)
    \/ \E cs \in CsIds : CallFile(cs, "master", NoPushvars)
    \/ StepsChangeset
    \/ StepsFile
    \/ \E e \in Evals : join_all_poll(e)

SpecEmpty == InitLock /\ [][NextEmpty]_vars

(***************************************************************************)
(* SpecRace: the registry changes under an evaluation. The future an entry  *)
(* point returns does not borrow the manager, so h1 is registered again,    *)
(* with another body and another bypass, between the call and the first     *)
(* poll; the commit message holds the bypass string of one of the entries.  *)
(***************************************************************************)
RaceEntries ==
    {<<"h1", "reject", HookConfig(NoBypass)>>,
     <<"h1", "accept", HookConfig(CommitMessage(<<97>>))>>,
     <<"h2", "accept", HookConfig(NoBypass)>>}

NextRace ==
    \/ \E r \in RaceEntries : register_file_hook(r[1], r[2], r[3])
    \/ \E hooks \in {<<"h1">>, <<"h1", "h2">>} :
          Quiescent /\ set_hooks_for_bookmark("master", hooks)
    \/ CallFile("c1", "master", NoPushvars)
    \/ StepsFile
    \/ \E e \in Evals : join_all_poll(e)

SpecRace == InitLock /\ [][NextRace]_vars

(***************************************************************************)
(* SpecLive: file evaluations of a changeset with one file under a bookmark *)
(* bound to two hooks, polled one get at a time while file hooks are        *)
(* registered, next to changeset evaluations with an accepting and a        *)
(* failing hook, under a fair scheduler: a task that can be polled is       *)
(* polled (the caller's executor drives the future an entry point           *)
(* returns), and the future of a rule body that was started completes.      *)
(***************************************************************************)
InitLive ==
    /\ InitManager
    /\ receiver = TcpReceiverService_new
    /\ content_store = <<>>
    /\ store = [c \in {"c1"} |->
                   Changeset(<<117>>, <<97>>, <<ChangedFile("a", "Added")>>)]

\* The polls of evaluation e.
LiveStep(e) ==
    \/ run_file_hooks(e)
    \/ cache_get_hit(e)
    \/ fill_lock(e)
    \/ fill_call_run(e)
    \/ fill_return(e)
    \/ run_changeset_hooks_for_changeset(e)
    \/ \E i \in DOMAIN evals[e].tasks : run_changeset_hook(e, i)
    \/ join_all_poll(e)

NextLive ==
    \/ \E r \in {<<"h1", "accept">>, <<"h2", "reject">>} :
          register_file_hook(r[1], r[2], HookConfig(NoBypass))
    \/ \E r \in {<<"h1", "accept">>, <<"h2", "fail">>} :
          Quiescent /\ register_changeset_hook(r[1], r[2], HookConfig(NoBypass))
    \/ Quiescent /\ set_hooks_for_bookmark("master", <<"h1", "h2">>)
    \/ CallFile("c1", "master", NoPushvars)
    \/ CallChangeset("c1", "master", NoPushvars)
    \/ \E e \in Evals : LiveStep(e)
    \/ \E k \in Keys : fill_complete(k)

\* Some task that can be polled is polled, and some started body completes:
\* less than a fair executor gives each task.
Fairness ==
    /\ WF_vars(\E e \in Evals : LiveStep(e))
    /\ WF_vars(\E k \in Keys : fill_complete(k))

SpecLive == InitLive /\ [][NextLive]_vars /\ Fairness

(***************************************************************************)
(* SpecNew: construction. The manager is built with the checker disabled    *)
(* or not, over a sync that never completes or completes before, at or      *)
(* after the ten seconds of the wait; the built manager then registers a    *)
(* changeset hook, binds it and evaluates.                                  *)
(***************************************************************************)
Syncs == {NeverSyncs} \cup {SyncsAfter(ms) : ms \in {0, 10000, 10001}}

InitNew ==
    /\ hook_manager = NotConstructed
    /\ changeset_hooks = <<>>
    /\ file_hooks = <<>>
    /\ bookmark_hooks = <<>>
    /\ cache = <<>>
    /\ lru = <<>>
    /\ evals = [e \in Evals |-> IdleEval]
    /\ fills = [k \in Keys |-> 0]
    /\ ncalls = 0
    /\ nconf = 0
    /\ file_hooks_lock = 0
    /\ hook_names = [changeset |-> {}, file |-> {}]
    /\ passed = [changeset |-> <<>>, file |-> <<>>, bookmark |-> <<>>]
    /\ helper = [file |-> NoHelperCall, changeset |-> NoHelperCall]
    /\ receiver = TcpReceiverService_new
    /\ content_store = <<>>
    /\ store = [c \in {"c1"} |->
                   Changeset(<<117>>, <<97>>, <<ChangedFile("a", "Added")>>)]

Built == hook_manager.pc = "built"

NextNew ==
    \/ \E disable_acl_checker \in BOOLEAN, sync \in Syncs :
          call_HookManager_new(disable_acl_checker, sync)
    \/ Built /\ Quiescent /\ register_changeset_hook("h1", "accept", HookConfig(NoBypass))
    \/ Built /\ Quiescent /\ set_hooks_for_bookmark("master", <<"h1">>)
    \/ Built /\ CallChangeset("c1", "master", NoPushvars)
    \/ Built /\ StepsChangeset
    \/ Built /\ \E e \in Evals : join_all_poll(e)

SpecNew == InitNew /\ [][NextNew]_vars

(***************************************************************************)
(* Vocabulary of the claims, stated without the operators of the model.     *)
(***************************************************************************)
FinishedEvals(kind) == {e \in Evals : evals[e].pc = "done" /\ evals[e].kind = kind}

\* The tasks of the file evaluations, as <<evaluation, index>>.
FileTasks ==
    UNION {{<<e, i>> : i \in DOMAIN evals[e].tasks} :
              e \in {d \in Evals : evals[d].kind = "file"}}
TaskOf(t) == evals[t[1]].tasks[t[2]]

Occurrences(names, n) == Cardinality({i \in DOMAIN names : names[i] = n})

\* s occurs in msg at some offset, code point for code point.
IsSubstring(msg, s) ==
    \E off \in 0..Len(msg) :
        /\ off + Len(s) <= Len(msg)
        /\ \A i \in 1..Len(s) : msg[off + i] = s[i]

\* The UTF-8 encoding of a string of code points below 0x800.
RECURSIVE Utf8Encode(_)
Utf8Encode(str) ==
    IF str = <<>> THEN <<>>
    ELSE (IF Head(str) < 128 THEN <<Head(str)>>
          ELSE <<192 + (Head(str) \div 64), 128 + (Head(str) % 64)>>)
         \o Utf8Encode(Tail(str))

\* The bypass of a configuration applies to a commit message (a string) and
\* push variables, as the specification words it.
Bypassed(config, msg, pv) ==
    \/ /\ config.bypass.type = "CommitMessage"
       /\ IsSubstring(msg, config.bypass.value)
    \/ /\ config.bypass.type = "Pushvar"
       /\ pv.some
       /\ config.bypass.name \in DOMAIN pv.vars
       /\ pv.vars[config.bypass.name] = Utf8Encode(config.bypass.value)

\* The commit message of the evaluated changeset (ASCII in every store of the
\* specifications, so the string is the bytes).
MessageOf(e) == store[evals[e].cs_id].comments

\* The names that were bound to the bookmark and registered (in the registry
\* of the evaluation's kind) and not bypassed when evaluation e was called.
Eligible(e) ==
    {n \in HookNames :
        /\ evals[e].bound.some
        /\ Occurrences(evals[e].bound.hooks, n) > 0
        /\ n \in DOMAIN evals[e].registered
        /\ ~Bypassed(evals[e].registered[n].config, MessageOf(e), evals[e].pushvars)}

\* The files of the evaluated changeset that were added or modified.
LiveFiles(e) ==
    {HookFile(f.path, evals[e].cs_id, f.ty) :
        f \in {store[evals[e].cs_id].files[i] : i \in DOMAIN store[evals[e].cs_id].files}
              \cap [path : Paths, ty : {"Added", "Modified"}]}

VerdictCount(e, id) ==
    Cardinality({i \in DOMAIN evals[e].result.verdicts : evals[e].result.verdicts[i].id = id})

(***************************************************************************)
(* C1. Single-flight: gets of one key that are in progress together await   *)
(* one computation - the filler ran once for them - and see one outcome.    *)
(***************************************************************************)
C1_SingleFlight ==
    \A t \in FileTasks :
        LET x == TaskOf(t)
            k == CacheKey(x.id)
        IN  /\ x.st = "Pending" =>
                  /\ fills[k] = x.fill_no
                  /\ k \in DOMAIN cache
                  /\ cache[k].state = "Waiting"
            /\ \A u \in FileTasks :
                  LET y == TaskOf(u) IN
                  (CacheKey(y.id) = k /\ y.fill_no = x.fill_no) =>
                      /\ (x.st = "Pending") = (y.st = "Pending")
                         \/ "Dropped" \in {x.st, y.st}
                      /\ (x.st \in {"Done", "Failed"} /\ y.st \in {"Done", "Failed"}) =>
                            (x.st = y.st /\ x.exec = y.exec)

\* Two evaluations both got a verdict of the same key from one computation,
\* which they awaited together, and the filler ran once.
C1_Witness ==
    \E t, u \in FileTasks :
        /\ t[1] # u[1]
        /\ CacheKey(TaskOf(t).id) = CacheKey(TaskOf(u).id)
        /\ evals[t[1]].pc = "join_all"
        /\ evals[u[1]].pc = "join_all"
        /\ TaskOf(t).st = "Done"
        /\ TaskOf(u).st = "Done"
        /\ TaskOf(t).fill_no = 1
        /\ TaskOf(u).fill_no = 1
        /\ fills[CacheKey(TaskOf(t).id)] = 1
        /\ CacheKey(TaskOf(t).id) \in DOMAIN cache

(***************************************************************************)
(* C2. A successful file evaluation returns, for every rule that was        *)
(* registered, bound to the bookmark and not bypassed, and every added or   *)
(* modified file of the changeset, exactly one verdict with the execution   *)
(* id {cs_id, rule_name, file}.                                             *)
(***************************************************************************)
C2_ExactlyOne ==
    \A e \in FinishedEvals("file") :
        evals[e].result.tag = "Ok" =>
            \A n \in Eligible(e), f \in LiveFiles(e) :
                VerdictCount(e, FileHookExecutionID(evals[e].cs_id, n, f)) = 1

\* C2 as amended: one verdict with that id for each time the binding of the
\* bookmark lists the rule name (exactly one when it lists the name once).
C2_OnePerListing ==
    \A e \in FinishedEvals("file") :
        evals[e].result.tag = "Ok" =>
            \A n \in Eligible(e), f \in LiveFiles(e) :
                VerdictCount(e, FileHookExecutionID(evals[e].cs_id, n, f))
                    = Occurrences(evals[e].bound.hooks, n)

\* A successful file evaluation of a changeset with two live files, for a
\* binding that lists a registered rule twice: two verdicts for each file.
C2_Witness ==
    \E e \in FinishedEvals("file") :
        /\ evals[e].result.tag = "Ok"
        /\ Cardinality(LiveFiles(e)) = 2
        /\ evals[e].bound.hooks = <<"h1", "h1">>
        /\ "h1" \in Eligible(e)
        /\ Len(evals[e].result.verdicts) = 4

(***************************************************************************)
(* C3. A successful changeset evaluation returns, for every changeset rule  *)
(* that was registered, bound to the bookmark and not bypassed, exactly one *)
(* verdict with the execution id {cs_id, rule_name}.                        *)
(***************************************************************************)
C3_ExactlyOne ==
    \A e \in FinishedEvals("changeset") :
        evals[e].result.tag = "Ok" =>
            \A n \in Eligible(e) :
                VerdictCount(e, ChangesetHookExecutionID(evals[e].cs_id, n)) = 1

\* C3 as amended: one verdict with that id for each time the binding of the
\* bookmark lists the rule name (exactly one when it lists the name once).
C3_OnePerListing ==
    \A e \in FinishedEvals("changeset") :
        evals[e].result.tag = "Ok" =>
            \A n \in Eligible(e) :
                VerdictCount(e, ChangesetHookExecutionID(evals[e].cs_id, n))
                    = Occurrences(evals[e].bound.hooks, n)

\* A successful changeset evaluation for a binding that lists a registered
\* rule twice: two verdicts of that rule.
C3_Witness ==
    \E e \in FinishedEvals("changeset") :
        /\ evals[e].result.tag = "Ok"
        /\ evals[e].bound.hooks = <<"h1", "h1">>
        /\ "h1" \in Eligible(e)
        /\ Len(evals[e].result.verdicts) = 2

\* The names the binding of evaluation e listed that its registry did not
\* hold when e was called.
Unregistered(e) ==
    {n \in HookNames :
        /\ evals[e].bound.some
        /\ Occurrences(evals[e].bound.hooks, n) > 0
        /\ n \notin DOMAIN evals[e].registered}

VerdictNames(e) ==
    {evals[e].result.verdicts[i].id.hook_name : i \in DOMAIN evals[e].result.verdicts}

C5_DroppedSilently ==
    \A e \in FinishedEvals("file") :
        Unregistered(e) # {} =>
            /\ evals[e].result.kind \notin {"NoSuchHook", "panic"}
            /\ evals[e].result.tag = "Ok" =>
                  /\ VerdictNames(e) \cap Unregistered(e) = {}
                  /\ LiveFiles(e) # {} => Eligible(e) \subseteq VerdictNames(e)

\* A file evaluation for the binding <<h1, h2>> with only h1 registered
\* succeeded with the verdicts of h1.
C5_Witness ==
    \E e \in FinishedEvals("file") :
        /\ evals[e].bound.hooks = <<"h1", "h2">>
        /\ Unregistered(e) = {"h2"}
        /\ evals[e].result.tag = "Ok"
        /\ VerdictNames(e) = {"h1"}

(***************************************************************************)
(* C6. Deleted files never appear in file verdicts: no verdict of a file    *)
(* evaluation is about a Deleted file, and no cache get and no rule body    *)
(* invocation is issued for one.                                            *)
(***************************************************************************)
DeletedKeys ==
    {k \in Keys : /\ k[1] \in DOMAIN store
                  /\ \E i \in DOMAIN store[k[1]].files :
                        /\ store[k[1]].files[i].path = k[3]
                        /\ store[k[1]].files[i].ty = "Deleted"}

C6_NoDeleted ==
    /\ \A e \in Evals :
          /\ \A i \in DOMAIN evals[e].tasks :
                evals[e].kind = "file" => evals[e].tasks[i].id.file.ty # "Deleted"
          /\ \A i \in DOMAIN evals[e].result.verdicts :
                evals[e].kind = "file" => evals[e].result.verdicts[i].id.file.ty # "Deleted"
    /\ \A k \in DOMAIN cache : cache[k].file.ty # "Deleted"
    /\ \A k \in DeletedKeys : fills[k] = 0 /\ k \notin DOMAIN cache

\* A file evaluation of a changeset with an added and a deleted file
\* succeeded with a verdict for the added file.
C6_Witness ==
    \E e \in FinishedEvals("file") :
        /\ evals[e].result.tag = "Ok"
        /\ \E i \in DOMAIN store[evals[e].cs_id].files :
              store[evals[e].cs_id].files[i].ty = "Deleted"
        /\ Len(evals[e].result.verdicts) >= 1
        /\ \A i \in DOMAIN evals[e].result.verdicts :
              evals[e].result.verdicts[i].id.file.path = "a"

(***************************************************************************)
(* C7. For a bookmark that was never bound, both entry points return an     *)
(* empty verdict sequence and make no call to the stores, whatever the      *)
(* changeset id (one the store does not hold included).                     *)
(***************************************************************************)
C7_UnboundIsEmpty ==
    \A e \in Evals :
        (evals[e].pc # "idle" /\ ~evals[e].bound.some) =>
            /\ evals[e].pc = "done"
            /\ evals[e].result = Ok(<<>>)
            /\ evals[e].store_calls = NoStoreCalls
            /\ evals[e].tasks = <<>>

\* Both entry points returned for the unbound bookmark and a changeset id the
\* store does not hold, while another bookmark was bound.
C7_Witness ==
    \E e, d \in Evals :
        /\ evals[e].pc = "done" /\ evals[d].pc = "done"
        /\ evals[e].kind = "changeset" /\ evals[d].kind = "file"
        /\ ~evals[e].bound.some /\ ~evals[d].bound.some
        /\ evals[e].cs_id \notin DOMAIN store /\ evals[d].cs_id \notin DOMAIN store
        /\ "master" \in DOMAIN bookmark_hooks

\* The names the binding of evaluation e listed and its registry held, with
\* a bypass of the given type, when e was called.
BoundWithBypass(e, type) ==
    {n \in HookNames :
        /\ evals[e].bound.some
        /\ Occurrences(evals[e].bound.hooks, n) > 0
        /\ n \in DOMAIN evals[e].registered
        /\ evals[e].registered[n].config.bypass.type = type}

\* Evaluation e has something to run a rule on.
HasSubject(e) == evals[e].kind = "file" => LiveFiles(e) # {}

(***************************************************************************)
(* C8. A rule with the bypass CommitMessage(s) is bypassed iff the commit   *)
(* message holds s as an exact, case-sensitive substring: then it           *)
(* contributes no verdict, otherwise its verdicts as usual, in the          *)
(* changeset path and in the file path.                                     *)
(***************************************************************************)
C8_CommitMessageBypass ==
    \A e \in Evals :
        (evals[e].pc = "done" /\ evals[e].result.tag = "Ok" /\ HasSubject(e)) =>
            \A n \in BoundWithBypass(e, "CommitMessage") :
                (n \notin VerdictNames(e))
                    <=> IsSubstring(MessageOf(e), evals[e].registered[n].config.bypass.value)

\* A changeset evaluation and a file evaluation both returned no verdict for
\* a rule whose bypass string is in the message past its start.
C8_Witness ==
    /\ store["c1"].comments = <<98, 97>>
    /\ \E e, d \in Evals :
          /\ evals[e].pc = "done" /\ evals[d].pc = "done"
          /\ evals[e].kind = "changeset" /\ evals[d].kind = "file"
          /\ evals[e].result = Ok(<<>>) /\ evals[d].result = Ok(<<>>)
          /\ BoundWithBypass(e, "CommitMessage") = {"h1"}
          /\ BoundWithBypass(d, "CommitMessage") = {"h1"}
          /\ evals[e].registered["h1"].config.bypass = CommitMessage(<<97>>)
          /\ evals[d].registered["h1"].config.bypass = CommitMessage(<<97>>)

(***************************************************************************)
(* C9. A rule with the bypass Pushvar{name, value} is bypassed iff push     *)
(* variables are present, hold the key name, and the bytes at name decode   *)
(* as UTF-8 to value; absent push variables, a missing key, another value   *)
(* or bytes that are not UTF-8 leave it not bypassed, and never fail.       *)
(***************************************************************************)
C9_PushvarBypass ==
    \A e \in Evals :
        (evals[e].pc = "done" /\ HasSubject(e)) =>
            \A n \in BoundWithBypass(e, "Pushvar") :
                LET bypass == evals[e].registered[n].config.bypass
                    pv == evals[e].pushvars
                IN  /\ evals[e].result.tag = "Ok"
                    /\ (n \notin VerdictNames(e))
                          <=> /\ pv.some
                              /\ bypass.name \in DOMAIN pv.vars
                              /\ pv.vars[bypass.name] = Utf8Encode(bypass.value)

\* A file evaluation was bypassed by the two-byte encoding of U+00E9 under
\* the key: it succeeded with no verdict.
C9_Witness ==
    \E e \in FinishedEvals("file") :
        /\ evals[e].pushvars = SomePushvars([n \in {"OVERRIDE"} |-> <<195, 169>>])
        /\ BoundWithBypass(e, "Pushvar") = {"h1"}
        /\ evals[e].registered["h1"].config.bypass = Pushvar("OVERRIDE", <<233>>)
        /\ evals[e].result = Ok(<<>>)

IsUtf8(bytes) ==
    \A i \in DOMAIN bytes :
        \/ bytes[i] < 128
        \/ /\ bytes[i] \in 194..223
           /\ i + 1 \in DOMAIN bytes
           /\ bytes[i + 1] \in 128..191
        \/ /\ bytes[i] \in 128..191
           /\ i - 1 \in DOMAIN bytes
           /\ bytes[i - 1] \in 194..223

\* The store call of evaluation e fails: the store does not hold the
\* changeset, or its author or commit message does not decode.
StoreFails(e) ==
    \/ evals[e].cs_id \notin DOMAIN store
    \/ ~IsUtf8(store[evals[e].cs_id].user)
    \/ ~IsUtf8(store[evals[e].cs_id].comments)

(***************************************************************************)
(* C11. An evaluation returns a complete verdict list or one error, never   *)
(* both: when a dispatched rule body or the store call failed it returns an *)
(* error and no verdict; a Rejected verdict is a normal verdict and never   *)
(* makes the evaluation fail.                                               *)
(***************************************************************************)
C11_VerdictsOrError ==
    \A e \in Evals :
        evals[e].pc = "done" =>
            LET tasks == evals[e].tasks
                result == evals[e].result
            IN  /\ result.tag \in {"Ok", "Err"}
                /\ result.tag = "Err" => result.verdicts = <<>>
                /\ (\E i \in DOMAIN tasks : tasks[i].st = "Failed") => result.tag = "Err"
                /\ (evals[e].bound.some /\ StoreFails(e)) => result.tag = "Err"
                /\ result.tag = "Ok" =>
                      /\ Len(result.verdicts) = Len(tasks)
                      /\ \A i \in DOMAIN tasks :
                            /\ tasks[i].st = "Done"
                            /\ result.verdicts[i] = [id |-> tasks[i].id, exec |-> tasks[i].exec]
                            /\ tasks[i].exec.tag \in {"Accepted", "Rejected"}
                /\ (/\ evals[e].bound.some => ~StoreFails(e)
                    /\ \A i \in DOMAIN tasks : tasks[i].st = "Done") => result.tag = "Ok"

\* One evaluation returned a Rejected verdict in a successful result, one
\* failed with the error of a rule body, and both are of one kind.
C11_Witness ==
    \E e, d \in Evals :
        /\ evals[e].pc = "done" /\ evals[d].pc = "done"
        /\ evals[e].kind = evals[d].kind
        /\ evals[e].result.tag = "Ok"
        /\ \E i \in DOMAIN evals[e].result.verdicts :
              evals[e].result.verdicts[i].exec.tag = "Rejected"
        /\ evals[d].result = Err("while executing hook", "h2")
        /\ \E i \in DOMAIN evals[d].tasks : evals[d].tasks[i].exec.tag = "Rejected"

(***************************************************************************)
(* C12. When the author or the commit message of the changeset is not       *)
(* UTF-8, the evaluation (of either kind) fails with a decoding error, no   *)
(* rule body is invoked and no cache get is issued.                         *)
(***************************************************************************)
C12_Utf8Error ==
    \A e \in Evals :
        (/\ evals[e].pc # "idle"
         /\ evals[e].bound.some
         /\ evals[e].cs_id \in DOMAIN store
         /\ \/ ~IsUtf8(store[evals[e].cs_id].user)
            \/ ~IsUtf8(store[evals[e].cs_id].comments)) =>
            /\ evals[e].pc = "done" => /\ evals[e].result.tag = "Err"
                                       /\ evals[e].result.kind = "Utf8Error"
            /\ evals[e].tasks = <<>>
            /\ \A k \in Keys : k[1] = evals[e].cs_id => (fills[k] = 0 /\ k \notin DOMAIN cache)

\* A changeset evaluation and a file evaluation, each with a registered and
\* bound hook, failed on a commit message that is not UTF-8 (the author is).
C12_Witness ==
    \E e, d \in Evals :
        /\ evals[e].pc = "done" /\ evals[d].pc = "done"
        /\ evals[e].kind = "changeset" /\ evals[d].kind = "file"
        /\ evals[e].hooks # <<>> /\ evals[d].hooks # <<>>
        /\ IsUtf8(store["c1"].user) /\ ~IsUtf8(store["c1"].comments)
        /\ evals[e].result = Err("Utf8Error", "comments")
        /\ evals[d].result = Err("Utf8Error", "comments")

(***************************************************************************)
(* C13. Errors of the filler are not cached: when the rule body fails for   *)
(* a key, every get that was waiting on the key receives the error, the key *)
(* is not resident afterwards, and the next get of the key invokes the      *)
(* filler again.                                                            *)
(***************************************************************************)
C13_ErrorsNotCached ==
    /\ \A k \in DOMAIN cache : cache[k].state = "Complete" => cache[k].hook # "fail"
    /\ \A t \in FileTasks :
          LET x == TaskOf(t)
              k == CacheKey(x.id)
          IN  /\ x.st = "Failed" =>
                    /\ k \in DOMAIN cache => cache[k].fill_no > x.fill_no
                    /\ \A u \in FileTasks :
                          (CacheKey(TaskOf(u).id) = k /\ TaskOf(u).fill_no = x.fill_no) =>
                              TaskOf(u).st \in {"Failed", "Dropped"}
              /\ \A u \in FileTasks :
                    (/\ CacheKey(TaskOf(u).id) = k
                     /\ TaskOf(u).st = "Failed"
                     /\ x.st = "Pending") => x.fill_no > TaskOf(u).fill_no

\* The body failed for a key, the evaluation that got the error returned it,
\* and a later evaluation asked for the key again: the filler ran a second
\* time and the key is not resident after the second failure.
C13_Witness ==
    \E t, u \in FileTasks :
        /\ CacheKey(TaskOf(t).id) = CacheKey(TaskOf(u).id)
        /\ TaskOf(t).st = "Failed" /\ TaskOf(t).fill_no = 1
        /\ TaskOf(u).st = "Failed" /\ TaskOf(u).fill_no = 2
        /\ fills[CacheKey(TaskOf(t).id)] = 2
        /\ CacheKey(TaskOf(t).id) \notin DOMAIN cache
        /\ evals[t[1]].result.tag = "Err" /\ evals[u[1]].result.tag = "Err"

(***************************************************************************)
(* C14. Memoization across evaluations: while a completed verdict of a key  *)
(* is resident in the cache, a file evaluation that needs the key gets that *)
(* verdict and the rule body is not invoked for the key again.              *)
(***************************************************************************)
C14_Memoized ==
    [][\A k \in DOMAIN cache :
          cache[k].state = "Complete" =>
              /\ fills'[k] = fills[k]
              /\ k \in DOMAIN cache' => cache'[k] = cache[k]
              /\ \A e \in Evals :
                    (evals[e].pc = "called" /\ evals'[e].pc # "called") =>
                        \A i \in DOMAIN evals'[e].tasks :
                            CacheKey(evals'[e].tasks[i].id) = k =>
                                /\ evals'[e].tasks[i].st = "Done"
                                /\ evals'[e].tasks[i].exec = cache[k].value]_vars

\* Two evaluations got the verdict of a key from the one computation of it,
\* the second of them called after the first had returned (the registry was
\* changed in between, which takes an idle manager), and the verdict is
\* still resident.
C14_Witness ==
    \E t, u \in FileTasks :
        /\ t[1] # u[1]
        /\ evals[t[1]].registered # evals[u[1]].registered
        /\ evals[t[1]].pc = "done" /\ evals[u[1]].pc = "done"
        /\ CacheKey(TaskOf(t).id) = CacheKey(TaskOf(u).id)
        /\ TaskOf(t).st = "Done" /\ TaskOf(u).st = "Done"
        /\ TaskOf(t).exec = TaskOf(u).exec
        /\ TaskOf(t).exec.tag = "Rejected"
        /\ fills[CacheKey(TaskOf(t).id)] = 1
        /\ CacheKey(TaskOf(t).id) \in DOMAIN cache

\* The keys of the completed verdicts resident in the cache.
Resident(c) == {k \in DOMAIN c : c[k].state = "Complete"}

\* The weight of a resident verdict as the specification defines it: path,
\* changeset id and rule name of the key, and for a rejection a fixed
\* overhead and its two descriptions (in bytes).
EntryWeight(c, k) ==
    Len(k[3]) + Len(k[1]) + Len(k[2])
        + (IF c[k].value.tag = "Rejected"
           THEN 2 + Len(c[k].value.description) + Len(c[k].value.long_description)
           ELSE 1)

RECURSIVE SumWeights(_, _)
SumWeights(c, keys) ==
    IF keys = {} THEN 0
    ELSE LET k == CHOOSE x \in keys : TRUE IN EntryWeight(c, k) + SumWeights(c, keys \ {k})

\* Position of a key in the order of use (least recently used first).
UsePosition(k) == CHOOSE i \in DOMAIN lru : lru[i] = k

(***************************************************************************)
(* C15. Cache bound: the completed verdicts resident in the cache number at *)
(* most entrylimit and weigh at most weightlimit together; the verdicts     *)
(* that leave the cache are the least recently used ones; and no            *)
(* evaluation panics.                                                       *)
(***************************************************************************)
C15_CacheBound ==
    /\ [](/\ Cardinality(Resident(cache)) <= entrylimit
          /\ SumWeights(cache, Resident(cache)) <= weightlimit
          /\ \A e \in Evals : evals[e].result.kind # "panic")
    /\ [][\A k \in Resident(cache) \ DOMAIN cache' :
             \A j \in Resident(cache) \cap DOMAIN cache' :
                 UsePosition(k) < UsePosition(j)]_vars

\* The cache holds a rejection and evicted another one for it: the filler
\* ran for both keys, one is resident, and the cache is below entrylimit.
C15_Witness ==
    \E k, j \in Keys :
        /\ k # j
        /\ fills[k] > 0 /\ fills[j] > 0
        /\ Resident(cache) = {k}
        /\ DOMAIN cache = {k}
        /\ cache[k].value.tag = "Rejected"
        /\ \E t \in FileTasks :
              /\ CacheKey(TaskOf(t).id) = j
              /\ TaskOf(t).st = "Done"
              /\ TaskOf(t).exec.tag = "Rejected"

(***************************************************************************)
(* C16: the mutex of the file registry is never held across a rule          *)
(* invocation: whenever the run of a file hook is being called, no thread   *)
(* holds the mutex, and a concurrent file_hook_names can take it.           *)
(***************************************************************************)
C16_LockFreeAtRun ==
    \A e \in Evals :
        evals[e].pc = "run" => file_hooks_lock = 0 /\ ENABLED call_file_hook_names

\* The entry a registry holds for the arguments <<hook, config>> of a call.
EntryOf(args) == [hook |-> args[1], config |-> args[2]]

(***************************************************************************)
(* C17: registering replaces: each registry holds, for every name ever      *)
(* registered in it, exactly the body and the configuration of the latest   *)
(* register call for that name in that registry, and nothing else; so a     *)
(* registration leaves the other names and the other registry as they were. *)
(***************************************************************************)
C17_Replaces ==
    /\ DOMAIN changeset_hooks = DOMAIN passed.changeset
    /\ \A n \in DOMAIN passed.changeset :
          changeset_hooks[n] = EntryOf(passed.changeset[n])
    /\ DOMAIN file_hooks = DOMAIN passed.file
    /\ \A n \in DOMAIN passed.file : file_hooks[n] = EntryOf(passed.file[n])

\* The file hook h2 was registered again with another entry after an
\* evaluation saw its first one, and the changeset hook h1 an evaluation saw
\* is still all the changeset registry holds.
C17_Witness ==
    \E e \in FinishedEvals("changeset"), d \in FinishedEvals("file") :
        /\ DOMAIN evals[e].registered = {"h1"}
        /\ DOMAIN changeset_hooks = {"h1"}
        /\ evals[e].registered["h1"] = changeset_hooks["h1"]
        /\ DOMAIN evals[d].registered = {"h2"}
        /\ DOMAIN file_hooks = {"h2"}
        /\ evals[d].registered["h2"] # file_hooks["h2"]

\* The registry an evaluation of the kind resolves names in.
RegistryOf(kind) == IF kind = "changeset" THEN changeset_hooks ELSE file_hooks

\* The names of a sequence of resolved hooks, in order.
NamesOf(hooks) == [i \in DOMAIN hooks |-> hooks[i].name]

(***************************************************************************)
(* C18: binding replaces: every bookmark is bound to exactly the list of    *)
(* the latest set_hooks_for_bookmark call for it (so a call for one         *)
(* bookmark leaves the others as they were), and an evaluation called for   *)
(* a bound bookmark considers the names of that latest list that its        *)
(* registry holds, in order, and no name of an earlier list.                *)
(***************************************************************************)
C18_BindReplaces ==
    /\ [](/\ DOMAIN bookmark_hooks = DOMAIN passed.bookmark
          /\ \A b \in DOMAIN passed.bookmark : bookmark_hooks[b] = passed.bookmark[b])
    /\ [][\A e \in Evals :
             (/\ ncalls' = ncalls + 1
              /\ evals'[e] # evals[e]
              /\ evals'[e].bookmark \in DOMAIN passed.bookmark)
             => /\ evals'[e].pc = "called"
                /\ NamesOf(evals'[e].hooks) =
                      SelectSeq(passed.bookmark[evals'[e].bookmark],
                                LAMBDA n : n \in DOMAIN RegistryOf(evals'[e].kind))]_vars

\* The bookmark was bound to the registered h1, evaluated, and bound again to
\* h2 alone: the first evaluation has the verdict of h1, the second, called
\* with h1 still registered, has none.
C18_Witness ==
    /\ bookmark_hooks = [b \in {"master"} |-> <<"h2">>]
    /\ \E e, d \in FinishedEvals("changeset") :
          /\ evals[e].bookmark = "master"
          /\ evals[d].bookmark = "master"
          /\ evals[e].result.tag = "Ok"
          /\ VerdictNames(e) = {"h1"}
          /\ "h1" \in DOMAIN evals[d].registered
          /\ evals[d].bound = [some |-> TRUE, hooks |-> <<"h2">>]
          /\ evals[d].result = Ok(<<>>)

(***************************************************************************)
(* C19: changeset_hook_names returns exactly the names passed to            *)
(* register_changeset_hook so far and file_hook_names exactly those passed  *)
(* to register_file_hook, so a name registered in one registry only is not  *)
(* in the other's result; a returned set is the value at the call, and a    *)
(* later registration does not alter it.                                    *)
(***************************************************************************)
C19_NameSnapshots ==
    /\ [](/\ changeset_hook_names = DOMAIN passed.changeset
          /\ file_hook_names = DOMAIN passed.file
          /\ changeset_hook_names \cap (DOMAIN passed.file \ DOMAIN passed.changeset) = {}
          /\ file_hook_names \cap (DOMAIN passed.changeset \ DOMAIN passed.file) = {})
    /\ [][/\ hook_names'.changeset # hook_names.changeset
             => hook_names'.changeset = DOMAIN passed.changeset /\ passed' = passed
          /\ hook_names'.file # hook_names.file
             => hook_names'.file = DOMAIN passed.file /\ passed' = passed
          /\ passed' # passed => hook_names' = hook_names]_vars

\* Both sets were read with h1 in each registry, and h2 was then registered
\* as a changeset hook: the sets returned still hold h1 alone, and h2 is in
\* the changeset registry only.
C19_Witness ==
    /\ hook_names = [changeset |-> {"h1"}, file |-> {"h1"}]
    /\ DOMAIN passed.changeset = {"h1", "h2"}
    /\ DOMAIN passed.file = {"h1"}
    /\ changeset_hook_names = {"h1", "h2"}
    /\ file_hook_names = {"h1"}

C21_UnknownIgnored ==
    [][(/\ receiver'.accepted = receiver.accepted + 1
        /\ ~(receiver'.buf.json /\ receiver'.buf.name \in CommandNames))
       => /\ receiver'.called = receiver.called
          /\ receiver'.pc = "listening"]_vars

(***************************************************************************)
(* C22: a bookmark bound to the empty list is a bookmark with no binding:   *)
(* an evaluation of either kind called for it returns at once with no       *)
(* verdict and without a call of the changeset store, whether or not the    *)
(* store holds the changeset.                                               *)
(***************************************************************************)
C22_EmptyBindingIsUnbound ==
    \A e \in Evals :
        (/\ evals[e].pc # "idle"
         /\ evals[e].bound = [some |-> TRUE, hooks |-> <<>>])
        => /\ evals[e].pc = "done"
           /\ evals[e].result = Ok(<<>>)
           /\ evals[e].store_calls = NoStoreCalls

\* How often the verdict v occurs in the result of evaluation e.
CountVerdict(e, v) ==
    Cardinality({i \in DOMAIN evals[e].result.verdicts : evals[e].result.verdicts[i] = v})

\* The names a binding lists.
BoundNames(e) == {evals[e].bound.hooks[i] : i \in DOMAIN evals[e].bound.hooks}

(***************************************************************************)
(* C23: a binding is a set: two successful evaluations of the same kind,    *)
(* for the same changeset and push-vars and against the same registry,      *)
(* whose bindings list the same names return the same multiset of           *)
(* verdicts, whatever the order of the names and however often a name is    *)
(* listed.                                                                  *)
(***************************************************************************)
C23_BindingIsSet ==
    \A e, d \in Evals :
        (/\ evals[e].pc = "done" /\ evals[d].pc = "done"
         /\ evals[e].result.tag = "Ok" /\ evals[d].result.tag = "Ok"
         /\ evals[e].kind = evals[d].kind
         /\ evals[e].cs_id = evals[d].cs_id
         /\ evals[e].pushvars = evals[d].pushvars
         /\ evals[e].registered = evals[d].registered
         /\ evals[e].bound.some /\ evals[d].bound.some
         /\ BoundNames(e) = BoundNames(d))
        => \A i \in DOMAIN evals[e].result.verdicts :
              CountVerdict(e, evals[e].result.verdicts[i])
                  = CountVerdict(d, evals[e].result.verdicts[i])

(***************************************************************************)
(* C24: the weight of a cache key is the weight of its path plus the        *)
(* weight of its changeset id plus the weight of its rule name, each        *)
(* counted once: so it is for the key of every get an evaluation issued.    *)
(***************************************************************************)
C24_KeyWeight ==
    \A t \in FileTasks :
        LET id == TaskOf(t).id IN
        FileHookExecutionID_get_weight(id)
            = String_get_weight(id.file.path) + HgChangesetId_get_weight(id.cs_id)
                + String_get_weight(id.hook_name)

\* The keys evaluation e has issued a get for.
KeysOf(ev) == {CacheKey(ev.tasks[i].id) : i \in DOMAIN ev.tasks}

(***************************************************************************)
(* C25: bypass is decided before the cache is consulted: a file evaluation  *)
(* issues no get and returns no verdict for a rule that is bypassed for     *)
(* its commit message and push-vars, and the filler runs only for a key an  *)
(* evaluation has just issued a get for; so a bypassed rule yields nothing  *)
(* even when the cache holds a verdict for its key.                         *)
(***************************************************************************)
C25_BypassBeforeCache ==
    /\ [](\A e \in Evals :
             evals[e].kind = "file" =>
                /\ \A i \in DOMAIN evals[e].tasks :
                      evals[e].tasks[i].id.hook_name \in Eligible(e)
                /\ VerdictNames(e) \subseteq Eligible(e))
    /\ [][\A k \in Keys :
             fills'[k] # fills[k] =>
                \E e \in Evals : k \in KeysOf(evals'[e]) \ KeysOf(evals[e])]_vars

\* The cache holds the rejection of h1 on file a from an evaluation without
\* push-vars, and a later evaluation with the bypassing push-var issued no
\* get and returned no verdict; the filler ran once.
C25_Witness ==
    /\ <<"c1", "h1", "a", "c1">> \in DOMAIN cache
    /\ cache[<<"c1", "h1", "a", "c1">>].state = "Complete"
    /\ cache[<<"c1", "h1", "a", "c1">>].value.tag = "Rejected"
    /\ fills[<<"c1", "h1", "a", "c1">>] = 1
    /\ evals[1].kind = "file"
    /\ evals[1].pc = "done"
    /\ evals[1].pushvars = SomePushvars([n \in {"OVERRIDE"} |-> <<121>>])
    /\ BoundWithBypass(1, "Pushvar") = {"h1"}
    /\ evals[1].registered["h1"].config.bypass = Pushvar("OVERRIDE", <<121>>)
    /\ evals[1].tasks = <<>>
    /\ evals[1].result = Ok(<<>>)

(***************************************************************************)
(* C26: every verdict an evaluation returns carries the changeset id of     *)
(* the call and the name of a rule that was bound to the bookmark,          *)
(* registered in the registry of the evaluation's kind and not bypassed;    *)
(* a verdict of the file path carries a live file of that changeset. A      *)
(* bound name that only the other registry holds yields no verdict.         *)
(***************************************************************************)
C26_VerdictStamp ==
    \A e \in Evals :
        \A i \in DOMAIN evals[e].result.verdicts :
            LET id == evals[e].result.verdicts[i].id IN
            /\ id.cs_id = evals[e].cs_id
            /\ id.hook_name \in Eligible(e)
            /\ evals[e].kind = "file" => id.file \in LiveFiles(e)

\* The bookmark lists h1 and h2, h1 is a changeset hook only and h2 a file
\* hook only: the changeset evaluation returned the verdict of h1 alone, the
\* file evaluation verdicts of h2 alone.
C26_Witness ==
    /\ DOMAIN changeset_hooks = {"h1"}
    /\ DOMAIN file_hooks = {"h2"}
    /\ \E e \in FinishedEvals("changeset"), d \in FinishedEvals("file") :
          /\ evals[e].bound = [some |-> TRUE, hooks |-> <<"h1", "h2">>]
          /\ evals[d].bound = [some |-> TRUE, hooks |-> <<"h1", "h2">>]
          /\ evals[e].result.tag = "Ok"
          /\ evals[d].result.tag = "Ok"
          /\ VerdictNames(e) = {"h1"}
          /\ VerdictNames(d) = {"h2"}

(***************************************************************************)
(* C27: the snapshot is built once per evaluation: an evaluation called     *)
(* for a bound bookmark makes exactly one get_changeset_by_changesetid      *)
(* call and exactly one get_changed_files call of the store, however many   *)
(* rules and files it runs, and every rule it runs is run for the           *)
(* changeset of that one snapshot.                                          *)
(***************************************************************************)
C27_SnapshotOnce ==
    \A e \in Evals :
        (evals[e].pc # "idle" /\ evals[e].bound.some) =>
            /\ evals[e].store_calls.get_changeset_by_changesetid = 1
            /\ evals[e].store_calls.get_changed_files = 1
            /\ \A i \in DOMAIN evals[e].tasks : evals[e].tasks[i].id.cs_id = evals[e].cs_id

\* A file evaluation ran two hooks on two files, and a changeset evaluation
\* ran none: each made one call of either store operation.
C27_Witness ==
    \E e \in FinishedEvals("file"), d \in FinishedEvals("changeset") :
        /\ Len(evals[e].result.verdicts) = 4
        /\ evals[e].store_calls = [get_changeset_by_changesetid |-> 1, get_changed_files |-> 1]
        /\ evals[d].bound.some
        /\ evals[d].result = Ok(<<>>)
        /\ evals[d].store_calls = [get_changeset_by_changesetid |-> 1, get_changed_files |-> 1]

(***************************************************************************)
(* C28: an evaluation called for a bound bookmark and a changeset id the    *)
(* store does not hold runs no rule and issues no cache get, and it fails   *)
(* with NoSuchChangeset of that id; the filler never runs for a key of      *)
(* such a changeset.                                                        *)
(***************************************************************************)
C28_NoSuchChangeset ==
    /\ \A e \in Evals :
          (/\ evals[e].pc # "idle"
           /\ evals[e].bound.some
           /\ evals[e].cs_id \notin DOMAIN store)
          => /\ evals[e].tasks = <<>>
             /\ evals[e].pc = "done" => evals[e].result = Err("NoSuchChangeset", evals[e].cs_id)
    /\ \A k \in Keys : k[1] \notin DOMAIN store => fills[k] = 0 /\ k \notin DOMAIN cache

\* Evaluations of both kinds for the bound bookmark, with a hook of their
\* kind registered, failed for the changeset c2 that the store does not hold.
C28_Witness ==
    \E e \in FinishedEvals("changeset"), d \in FinishedEvals("file") :
        /\ evals[e].cs_id = "c2" /\ evals[d].cs_id = "c2"
        /\ evals[e].bound = [some |-> TRUE, hooks |-> <<"h1", "h2">>]
        /\ evals[d].bound = [some |-> TRUE, hooks |-> <<"h1", "h2">>]
        /\ "h1" \in DOMAIN evals[e].registered
        /\ "h1" \in DOMAIN evals[d].registered
        /\ evals[e].result = Err("NoSuchChangeset", "c2")
        /\ evals[d].result = Err("NoSuchChangeset", "c2")

C30_NotInvalidated ==
    [][/\ file_hooks' # file_hooks
          => cache' = cache /\ lru' = lru /\ fills' = fills
       /\ \A k \in Resident(cache) :
             (k[2] \in DOMAIN file_hooks /\ file_hooks[k[2]].hook # cache[k].hook) =>
                \A e \in Evals :
                    (evals[e].pc = "called" /\ evals'[e].pc # "called") =>
                        /\ fills'[k] = fills[k]
                        /\ \A i \in DOMAIN evals'[e].tasks :
                              CacheKey(evals'[e].tasks[i].id) = k =>
                                  /\ evals'[e].tasks[i].st = "Done"
                                  /\ evals'[e].tasks[i].exec = cache[k].value]_vars

\* h1 was registered with a rejecting body, evaluated, and registered again
\* with an accepting one: the later evaluation, which saw the accepting
\* body in the registry, returned the rejection, and the filler ran once.
C30_Witness ==
    \E e \in FinishedEvals("file") :
        /\ "h1" \in DOMAIN evals[e].registered
        /\ evals[e].registered["h1"].hook = "accept"
        /\ evals[e].result.tag = "Ok"
        /\ \E i \in DOMAIN evals[e].result.verdicts :
              LET v == evals[e].result.verdicts[i] IN
              /\ v.id.hook_name = "h1"
              /\ v.exec.tag = "Rejected"
              /\ fills[CacheKey(v.id)] = 1

\* The verdict a body gives for a rule name, as the specification words it;
\* a failing body gives none.
VerdictOf(body, name) ==
    IF body = "accept" THEN Accepted ELSE Rejected("rejected", name)

(***************************************************************************)
(* C31: in the file path the bypass is decided with the configuration the   *)
(* registry held when the entry point was called, and the verdict is the    *)
(* one of the body the registry holds when the filler runs: the gets of an  *)
(* evaluation are those of the names eligible at its call, the filler       *)
(* records the entry the registry holds at that step, and the verdict a     *)
(* pending get receives is the verdict of the recorded body.                *)
(***************************************************************************)
C31_FillReadsRegistry ==
    [][/\ \A e \in Evals :
             (evals[e].kind = "file" /\ evals[e].pc = "called"
                 /\ evals'[e].pc = "join_all") =>
                {evals'[e].tasks[i].id.hook_name : i \in DOMAIN evals'[e].tasks}
                    = Eligible(e)
       /\ \A k \in Keys :
             fills'[k] # fills[k] =>
                /\ k \in DOMAIN cache'
                /\ cache'[k].hook = file_hooks[k[2]].hook
                /\ cache'[k].config = file_hooks[k[2]].config
       /\ \A t \in FileTasks :
             (TaskOf(t).st = "Pending" /\ evals'[t[1]].tasks[t[2]].st = "Done") =>
                evals'[t[1]].tasks[t[2]].exec
                    = VerdictOf(cache[CacheKey(TaskOf(t).id)].hook,
                                TaskOf(t).id.hook_name)]_vars

\* An evaluation was called when h1 was registered with a rejecting body and
\* no bypass; h1 was registered again, accepting and with a bypass the
\* commit message triggers, before the filler ran: the evaluation was not
\* bypassed and returned the acceptance of the new body.
C31_Witness ==
    \E e \in FinishedEvals("file") :
        /\ "h1" \in DOMAIN evals[e].registered
        /\ evals[e].registered["h1"] = [hook |-> "reject", config |-> HookConfig(NoBypass)]
        /\ file_hooks["h1"] = [hook |-> "accept",
                               config |-> HookConfig(CommitMessage(<<97>>))]
        /\ Bypassed(file_hooks["h1"].config, MessageOf(e), evals[e].pushvars)
        /\ evals[e].result.tag = "Ok"
        /\ \E i \in DOMAIN evals[e].result.verdicts :
              LET v == evals[e].result.verdicts[i] IN
              /\ v.id.hook_name = "h1"
              /\ v.exec = Accepted
              /\ fills[CacheKey(v.id)] = 1

(***************************************************************************)
(* C32: evaluations are read-only on configuration: a step of an            *)
(* evaluation of either kind - its call, the resolution of the snapshot,    *)
(* the run or the completion of a rule, the collection of the results,      *)
(* whether it ends in verdicts or in an error - leaves the changeset        *)
(* registry, the file registry and the bindings as they were; of the        *)
(* manager's state only the cache changes.                                  *)
(***************************************************************************)
C32_ReadOnly ==
    [][(evals' # evals \/ cache' # cache \/ lru' # lru \/ fills' # fills) =>
          /\ changeset_hooks' = changeset_hooks
          /\ file_hooks' = file_hooks
          /\ bookmark_hooks' = bookmark_hooks]_vars

\* A file evaluation left a verdict of h1 in the cache and a file evaluation
\* failed; the file registry and the binding the failed evaluation used are
\* still what it saw at its call and what the setters were passed.
C32_Witness ==
    /\ \E e \in FinishedEvals("file") :
          /\ evals[e].result.tag = "Err"
          /\ evals[e].bound = [some |-> TRUE, hooks |-> bookmark_hooks["master"]]
          /\ evals[e].registered = file_hooks
          /\ DOMAIN file_hooks = {"h1", "h2"}
    /\ \E k \in Resident(cache) : k[2] = "h1"
    /\ bookmark_hooks = passed.bookmark
    /\ \A n \in DOMAIN file_hooks : file_hooks[n] = EntryOf(passed.file[n])

(***************************************************************************)
(* C33: every evaluation that was called eventually completes, with a       *)
(* verdict list or with an error, when the scheduler is fair and the store  *)
(* calls and the rule bodies it depends on complete: no evaluation waits    *)
(* for ever for the lock of the file registry or for a pending cache entry  *)
(* another evaluation started.                                              *)
(***************************************************************************)
C33_Completes ==
    \A e \in Evals :
        (evals[e].pc \notin {"idle", "done"})
            ~> (evals[e].pc = "done" /\ evals[e].result.tag \in {"Ok", "Err"})

\* Evaluation e awaits the pending entry evaluation d started for a key, and
\* its next get finds no entry while d's filler holds the lock of the file
\* registry.
C33_Witness ==
    \E e, d \in Evals :
        /\ e # d
        /\ evals[e].pc = "gets"
        /\ file_hooks_lock = d
        /\ evals[d].pc \in {"fill", "run"}
        /\ \E i \in DOMAIN evals[e].tasks :
              /\ evals[e].tasks[i].st = "Pending"
              /\ CacheKey(evals[e].tasks[i].id) \in DOMAIN cache
              /\ cache[CacheKey(evals[e].tasks[i].id)].state = "Waiting"
              /\ fills[CacheKey(evals[e].tasks[i].id)] = 1
              /\ \E j \in DOMAIN evals[d].tasks :
                    evals[d].tasks[j].id = evals[e].tasks[i].id
        /\ \E n \in HookNames : \A k \in DOMAIN cache : k[2] # n

\* The sync of the checker completed within the ten seconds of the wait.
SyncedInTime == hook_manager.sync.completes /\ hook_manager.sync.ms <= 10000

(***************************************************************************)
(* C34: construction always succeeds, whatever the flag and the sync: new   *)
(* can be called on every input and returns a manager. The probe of the     *)
(* built manager is disabled when disable_acl_checker is set - no probe     *)
(* was created and no wait happened - or when the sync did not complete     *)
(* within the deadline, after one probe was created and waited for once;    *)
(* it is enabled exactly when the flag is not set and the sync completed    *)
(* in time.                                                                 *)
(***************************************************************************)
C34_ProbeOrNone ==
    /\ [](hook_manager.pc = "unbuilt" =>
             \A disable_acl_checker \in BOOLEAN, sync \in Syncs :
                 ENABLED call_HookManager_new(disable_acl_checker, sync))
    /\ [][hook_manager' # hook_manager =>
             hook_manager.pc = "unbuilt" /\ hook_manager'.pc = "built"]_vars
    /\ [](hook_manager.pc = "built" =>
             /\ hook_manager.reviewers_acl_checker.some
                   <=> (~hook_manager.disable_acl_checker /\ SyncedInTime)
             /\ hook_manager.disable_acl_checker =>
                   hook_manager.created = 0 /\ hook_manager.waits = 0
             /\ ~hook_manager.disable_acl_checker =>
                   hook_manager.created = 1 /\ hook_manager.waits = 1)

\* A manager built with the checker not disabled over a sync that took a
\* millisecond more than the wait: it has no probe, and it has evaluated a
\* changeset and returned a verdict.
C34_Witness ==
    /\ hook_manager.pc = "built"
    /\ ~hook_manager.disable_acl_checker
    /\ hook_manager.sync = SyncsAfter(10001)
    /\ hook_manager.waits = 1
    /\ ~hook_manager.reviewers_acl_checker.some
    /\ \E e \in FinishedEvals("changeset") :
          evals[e].result.tag = "Ok" /\ Len(evals[e].result.verdicts) = 1

====
